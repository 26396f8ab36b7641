--------------------------- MODULE LedgersProofs ---------------------------
(***************************************************************************)
(* The two hash chains, for any number of entries, categories and records. *)
(* However appends to TaxLedger overlap, each one answered leaves one row  *)
(* that continues one of its category; a category none of whose appends    *)
(* have raced has one chain, of which verification accepts every row       *)
(* nobody changed.  The audit trail, as Trails instantiates it, keeps      *)
(* every record chained to an older one whether or not records overlap.    *)
(***************************************************************************)
EXTENDS TaxLedger, Trails, TLAPS, FiniteSetTheorems, SequenceTheorems

LEMMA EntryType == \A a \in Appends : Entry(a) \in Entries /\ Entry(a).category = CategoryOf[a]
BY DEF Entries, Entry

(* A hash chained to a hash is a hash. *)
LEMMA HashType == \A h \in Hashes, e \in Entries : HashSelf(h, e) \in Hashes
BY DEF HashSelf, Hashes

LEMMA ForgeryType ==
  ASSUME TypeOK, NEW r \in rows, NEW f \in Forgeries(r)
  PROVE  f \in Rows
<1>1. r \in Rows BY DEF TypeOK
<1>2. CASE \E e \in Entries : f = [r EXCEPT !.entry = e]
  BY <1>1, <1>2 DEF Rows
<1>3. CASE \E h \in Hashes : f = [r EXCEPT !.prev = h]
  BY <1>1, <1>3 DEF Rows
<1>4. \A q \in rows : q.hash \in Hashes
  BY DEF TypeOK, Rows
<1>5. <<>> \in Hashes
  BY DEF Hashes
<1> QED BY <1>2, <1>3, <1>4, <1>5 DEF Forgeries

-----------------------------------------------------------------------------
LEMMA InitType == Init => TypeOK
<1> SUFFICES ASSUME Init PROVE TypeOK
  OBVIOUS
<1>1. \A a \in Appends : NoRow(a) \in Rows
  BY EntryType DEF NoRow, Rows, Hashes
<1>2. IsFiniteSet({})
  BY FS_EmptySet
<1>3. <<>> \in Hashes
  BY DEF Hashes
<1> QED BY <1>1, <1>2, <1>3, TaxLedgerAssumption DEF Init, TypeOK

LEMMA NextType == TypeOK /\ [Next]_vars => TypeOK'
<1> SUFFICES ASSUME TypeOK, [Next]_vars PROVE TypeOK'
  OBVIOUS
<1>1. CASE Tick
  BY <1>1, TaxLedgerAssumption DEF Tick, TypeOK
<1>2. CASE Alter
  <2>0. PICK r \in rows : \E f \in Forgeries(r) :
          rows' = (rows \ {r}) \cup {f} /\ altered' = {r.by}
    BY <1>2 DEF Alter
  <2>1. PICK f \in Forgeries(r) : rows' = (rows \ {r}) \cup {f} /\ altered' = {r.by}
    BY <2>0
  <2>2. f \in Rows /\ r.by \in Appends
    BY ForgeryType, <2>1 DEF TypeOK, Rows
  <2>3. IsFiniteSet(rows')
    BY <2>1, FS_RemoveElement, FS_AddElement DEF TypeOK
  <2> QED BY <1>2, <2>1, <2>2, <2>3 DEF Alter, TypeOK
<1>3. ASSUME NEW a \in Appends, Begin(a) PROVE TypeOK'
  <2>1. clock \in Nat
    BY TaxLedgerAssumption DEF TypeOK
  <2> QED BY <1>3, <2>1 DEF Begin, NoteRace, Goto, TypeOK
<1>4. ASSUME NEW a \in Appends, FindLast(a) PROVE TypeOK'
  <2>1. \A r \in rows : r.hash \in Hashes
    BY DEF TypeOK, Rows
  <2>2. <<>> \in Hashes
    BY DEF Hashes
  <2>3. last' \in [Appends -> Hashes]
    BY <1>4, <2>1, <2>2 DEF FindLast, InCategory, TypeOK
  <2> QED BY <1>4, <2>3 DEF FindLast, Goto, TypeOK
<1>5. ASSUME NEW a \in Appends, Insert(a) PROVE TypeOK'
  <2>1. PICK now \in started[a]..clock :
          draft' = [draft EXCEPT ![a] =
            [by |-> a, entry |-> Entry(a), prev |-> last[a],
             hash |-> HashSelf(last[a], Entry(a)), at |-> now]]
    BY <1>5 DEF Insert
  <2>2. now \in Nat
    BY TaxLedgerAssumption DEF TypeOK
  <2>3. last[a] \in Hashes /\ Entry(a) \in Entries
    BY EntryType DEF TypeOK
  <2>4. HashSelf(last[a], Entry(a)) \in Hashes
    BY <2>3, HashType
  <2>5. [by |-> a, entry |-> Entry(a), prev |-> last[a],
         hash |-> HashSelf(last[a], Entry(a)), at |-> now] \in Rows
    BY <2>2, <2>3, <2>4 DEF Rows
  <2>6. raced' = raced \/ raced' = raced \cup {CategoryOf[a]}
    BY <1>5 DEF Insert, NoteRace
  <2> QED BY <1>5, <2>1, <2>5, <2>6 DEF Insert, Goto, TypeOK
<1>6. ASSUME NEW a \in Appends, Forget(a)
      PROVE  /\ started' \in [Appends -> Nat] /\ last' \in [Appends -> Hashes]
             /\ draft' \in [Appends -> Rows]
  <2>1. NoRow(a) \in Rows /\ <<>> \in Hashes
    BY EntryType DEF NoRow, Rows, Hashes
  <2> QED BY <1>6, <2>1 DEF Forget, TypeOK
<1>7. ASSUME NEW a \in Appends, Commit(a) PROVE TypeOK'
  <2>1. IsFiniteSet(rows')
    BY <1>7, FS_AddElement DEF Commit, TypeOK
  <2> QED BY <1>6, <1>7, <2>1 DEF Commit, Goto, TypeOK
<1>8. ASSUME NEW a \in Appends, Abort(a) PROVE TypeOK'
  BY <1>6, <1>8 DEF Abort, TypeOK
<1>9. CASE UNCHANGED vars
  BY <1>9 DEF vars, TypeOK
<1> QED BY <1>1, <1>2, <1>3, <1>4, <1>5, <1>7, <1>8, <1>9 DEF Next

(* The ledger's rows, the drafts and what each append has read keep their  *)
(* types in every execution, with or without overlapping appends.          *)
THEOREM TypeCorrect == Spec => []TypeOK
<1> QED BY InitType, NextType, PTL DEF Spec
(* What a hash covers can be read off it.                                  *)
LEMMA HashInjective ==
  \A s, t \in Seq(Entries) : \A d, e \in Entries :
    Append(s, d) = Append(t, e) => s = t /\ d = e
<1> SUFFICES ASSUME NEW s \in Seq(Entries), NEW t \in Seq(Entries),
                    NEW d \in Entries, NEW e \in Entries,
                    Append(s, d) = Append(t, e)
             PROVE  s = t /\ d = e
  OBVIOUS
<1> QED BY AppendInjective

(* A changed row keeps its append, its hash, its time and its category. *)
LEMMA ForgeryFields ==
  ASSUME TypeOK, NEW r \in rows, NEW f \in Forgeries(r)
  PROVE  /\ f.by = r.by /\ f.at = r.at /\ f.hash = r.hash
         /\ f.entry.category = r.entry.category
<1>1. r \in Rows /\ f \in Rows
  BY ForgeryType DEF TypeOK
<1> QED BY <1>1 DEF Forgeries, Rows

-----------------------------------------------------------------------------
(***************************************************************************)
(* Appends that race may fork a chain, but they lose nothing and chain to  *)
(* nothing that is not there.                                              *)
(***************************************************************************)

(* Each committed append has its one row. *)
Own ==
  /\ \A r \in rows : pc[r.by] = "ok"
  /\ \A r, q \in rows : r.by = q.by => r = q

(* appendLedgerEntry (tax-ledger.ts:80) leaves one row for each append it  *)
(* answers and none for any other; unless it was changed since, the row    *)
(* holds the entry posted, matches its hash, and continues a row of its    *)
(* category that is in the table.                                          *)
Recorded ==
  /\ Own
  /\ \A a \in Appends : pc[a] = "ok" => \E r \in rows : r.by = a
  /\ \A r \in rows : r.by \notin altered =>
       r.entry = Entry(r.by) /\ SelfMatches(r) /\ Rooted(r.prev, r.entry.category)

FoundRooted ==
  \A a \in Appends : pc[a] \in {"found", "inserted"} => Rooted(last[a], CategoryOf[a])
DraftPosted ==
  \A a \in Appends : pc[a] = "inserted" =>
    /\ draft[a].by = a /\ draft[a].entry = Entry(a)
    /\ draft[a].prev = last[a] /\ SelfMatches(draft[a])

RecordedInv == TypeOK /\ Recorded /\ FoundRooted /\ DraftPosted

(* A hash that is in a category stays in it, whoever changes a row. *)
LEMMA RootedStays ==
  ASSUME TypeOK, [Next]_vars
  PROVE  \A h, c : Rooted(h, c) => Rooted(h, c)'
<1>1. CASE Alter
  <2>1. PICK r \in rows : \E f \in Forgeries(r) \ {r} : rows' = (rows \ {r}) \cup {f}
    BY <1>1 DEF Alter
  <2>2. PICK f \in Forgeries(r) \ {r} : rows' = (rows \ {r}) \cup {f}
    BY <2>1
  <2>3. f.hash = r.hash /\ f.entry.category = r.entry.category
    BY ForgeryFields
  <2> QED BY <2>2, <2>3 DEF Rooted, InCategory
<1>2. CASE ~Alter
  <2>1. rows \subseteq rows'
    BY <1>2 DEF Next, Tick, Begin, FindLast, Insert, Commit, Abort, vars
  <2> QED BY <2>1 DEF Rooted, InCategory
<1> QED BY <1>1, <1>2

LEMMA RecordedInit == Init => RecordedInv
<1> SUFFICES ASSUME Init PROVE RecordedInv
  OBVIOUS
<1>1. Recorded /\ FoundRooted /\ DraftPosted
  BY DEF Init, Recorded, Own, FoundRooted, DraftPosted
<1> QED BY <1>1, InitType DEF RecordedInv

(* The steps of an append that leave the table alone. *)
LEMMA RecordedLocal ==
  ASSUME RecordedInv, NEW a \in Appends,
         Begin(a) \/ FindLast(a) \/ Insert(a) \/ Abort(a)
  PROVE  Recorded' /\ FoundRooted' /\ DraftPosted'
<1>1. /\ rows' = rows /\ altered' = altered
      /\ pc[a] # "ok" /\ pc'[a] # "ok"
      /\ \A b \in Appends : b # a => pc'[b] = pc[b] /\ last'[b] = last[b] /\ draft'[b] = draft[b]
  BY DEF Begin, FindLast, Insert, Abort, Forget, Goto, IsOpen, RecordedInv, TypeOK
<1>2. \A r \in rows : r.by \in Appends
  BY DEF RecordedInv, TypeOK, Rows
<1>3. \A h, c : Rooted(h, c)' <=> Rooted(h, c)
  BY <1>1 DEF Rooted, InCategory
<1>4. Recorded'
  <2>1. Own'
    BY <1>1, <1>2 DEF RecordedInv, Recorded, Own
  <2> QED BY <1>1, <1>3, <2>1 DEF RecordedInv, Recorded, SelfMatches
<1>5. pc'[a] \in {"found", "inserted"} => Rooted(last'[a], CategoryOf[a])
  <2>1. CASE FindLast(a)
    BY <2>1 DEF FindLast, Rooted, RecordedInv, TypeOK
  <2>2. CASE ~FindLast(a)
    BY <2>2 DEF Begin, Insert, Abort, Goto, RecordedInv, TypeOK, FoundRooted
  <2> QED BY <2>1, <2>2
<1>6. FoundRooted'
  BY <1>1, <1>3, <1>5 DEF FoundRooted, RecordedInv
<1>7. pc'[a] = "inserted" =>
        /\ draft'[a].by = a /\ draft'[a].entry = Entry(a)
        /\ draft'[a].prev = last'[a] /\ SelfMatches(draft'[a])
  <2>1. CASE Begin(a) \/ FindLast(a) \/ Abort(a)
    BY <2>1 DEF Begin, FindLast, Abort, Goto, RecordedInv, TypeOK
  <2>2. CASE Insert(a)
    BY <2>2 DEF Insert, RecordedInv, TypeOK, SelfMatches
  <2> QED BY <2>1, <2>2
<1>8. DraftPosted'
  BY <1>1, <1>7 DEF DraftPosted, SelfMatches, RecordedInv
<1> QED BY <1>4, <1>6, <1>8

LEMMA RecordedCommit ==
  ASSUME RecordedInv, NEW a \in Appends, Commit(a)
  PROVE  Recorded' /\ FoundRooted' /\ DraftPosted'
<1> PICK d : d = draft[a]
  OBVIOUS
<1>1. /\ rows' = rows \cup {d} /\ altered' = altered
      /\ pc[a] = "inserted" /\ pc'[a] = "ok"
      /\ \A b \in Appends : b # a => pc'[b] = pc[b] /\ last'[b] = last[b] /\ draft'[b] = draft[b]
  BY DEF Commit, Forget, Goto, RecordedInv, TypeOK
<1>2. d.by = a /\ d.entry = Entry(a) /\ d.prev = last[a] /\ SelfMatches(d)
  BY <1>1 DEF RecordedInv, DraftPosted
<1>3. \A h, c : Rooted(h, c) => Rooted(h, c)'
  BY RootedStays DEF Next, RecordedInv
<1>4. Rooted(d.prev, d.entry.category)'
  <2>1. Rooted(last[a], CategoryOf[a])
    BY <1>1 DEF RecordedInv, FoundRooted
  <2> QED BY <1>2, <1>3, <2>1, EntryType
<1>5. \A r \in rows : r.by \in Appends /\ r.by # a
  BY <1>1 DEF RecordedInv, TypeOK, Rows, Recorded, Own
<1>6. Recorded'
  <2>1. Own'
    BY <1>1, <1>2, <1>5 DEF RecordedInv, Recorded, Own
  <2>2. \A b \in Appends : pc'[b] = "ok" => \E r \in rows' : r.by = b
    BY <1>1, <1>2 DEF RecordedInv, Recorded
  <2>3. \A r \in rows : r.by \notin altered =>
          r.entry = Entry(r.by) /\ SelfMatches(r) /\ Rooted(r.prev, r.entry.category)'
    BY <1>3 DEF RecordedInv, Recorded
  <2> QED BY <1>1, <1>2, <1>4, <2>1, <2>2, <2>3 DEF Recorded, SelfMatches
<1>7. FoundRooted'
  BY <1>1, <1>3 DEF FoundRooted, RecordedInv
<1>8. DraftPosted'
  BY <1>1 DEF DraftPosted, SelfMatches, RecordedInv
<1> QED BY <1>6, <1>7, <1>8

LEMMA RecordedAlter ==
  ASSUME RecordedInv, Alter
  PROVE  Recorded' /\ FoundRooted' /\ DraftPosted'
<1>1. PICK r \in rows : \E f \in Forgeries(r) \ {r} :
        rows' = (rows \ {r}) \cup {f} /\ altered' = {r.by}
  BY DEF Alter
<1>2. PICK f \in Forgeries(r) \ {r} : rows' = (rows \ {r}) \cup {f} /\ altered' = {r.by}
  BY <1>1
<1>3. altered = {} /\ pc' = pc /\ last' = last /\ draft' = draft
  BY DEF Alter
<1>4. f.by = r.by
  BY ForgeryFields DEF RecordedInv
<1>5. \A h, c : Rooted(h, c) => Rooted(h, c)'
  BY RootedStays DEF Next, RecordedInv
<1>6. Recorded'
  <2>1. Own'
    BY <1>2, <1>3, <1>4 DEF RecordedInv, Recorded, Own
  <2>2. \A b \in Appends : pc'[b] = "ok" => \E q \in rows' : q.by = b
    BY <1>2, <1>3, <1>4 DEF RecordedInv, Recorded
  <2>3. \A q \in rows' : q.by \notin altered' =>
          q.entry = Entry(q.by) /\ SelfMatches(q) /\ Rooted(q.prev, q.entry.category)'
    BY <1>2, <1>3, <1>4, <1>5 DEF RecordedInv, Recorded
  <2> QED BY <2>1, <2>2, <2>3 DEF Recorded, SelfMatches
<1>7. FoundRooted'
  BY <1>3, <1>5 DEF FoundRooted, RecordedInv
<1>8. DraftPosted'
  BY <1>3 DEF DraftPosted, SelfMatches, RecordedInv
<1> QED BY <1>6, <1>7, <1>8

LEMMA RecordedStep == RecordedInv /\ [Next]_vars => RecordedInv'
<1> SUFFICES ASSUME RecordedInv, [Next]_vars PROVE RecordedInv'
  OBVIOUS
<1>1. TypeOK'
  BY NextType DEF RecordedInv
<1>2. Recorded' /\ FoundRooted' /\ DraftPosted'
  <2>1. CASE Tick \/ UNCHANGED vars
    BY <2>1 DEF Tick, vars, RecordedInv, Recorded, Own, FoundRooted, DraftPosted, Rooted,
         InCategory, SelfMatches
  <2>2. CASE Alter
    BY <2>2, RecordedAlter
  <2>3. CASE \E a \in Appends : Commit(a)
    BY <2>3, RecordedCommit
  <2>4. CASE \E a \in Appends : Begin(a) \/ FindLast(a) \/ Insert(a) \/ Abort(a)
    BY <2>4, RecordedLocal
  <2> QED BY <2>1, <2>2, <2>3, <2>4 DEF Next
<1> QED BY <1>1, <1>2 DEF RecordedInv

(* However appends overlap, each one answered ok has exactly one row, with *)
(* its entry, that continues a row of its category; a failed one has none. *)
THEOREM RecordedAlways == Spec => []Recorded
<1>1. RecordedInv => Recorded
  BY DEF RecordedInv
<1> QED BY <1>1, RecordedInit, RecordedStep, PTL DEF Spec
-----------------------------------------------------------------------------
(***************************************************************************)
(* A category none of whose appends have raced.                            *)
(***************************************************************************)

(* h is the hash findFirst finds: a newest row's, or null *)
IsTip(c, h) ==
  \/ InCategory(c) = {} /\ h = <<>>
  \/ \E r \in InCategory(c) : Newest(r, c) /\ h = r.hash

OneOpen ==
  \A a, b \in Appends :
    IsOpen(a) /\ IsOpen(b) /\ CategoryOf[a] = CategoryOf[b] /\ CategoryOf[a] \notin raced
      => a = b

(* There a transaction began after every committed row of the category,    *)
(* found the newest one, and its draft continues it at a later time.  A    *)
(* row's hash, time and category are never changed, so a changed row       *)
(* spoils only its own link.                                               *)
Chained ==
  \A r \in rows : r.by \notin altered /\ r.entry.category \notin raced => Continues(r)
Distinct ==
  \A r, q \in rows :
    r.entry.category = q.entry.category /\ r.entry.category \notin raced /\ r.at = q.at => r = q
Past == \A r \in rows : r.at <= clock
BegunAfter ==
  \A a \in Appends : IsOpen(a) =>
    /\ started[a] <= clock
    /\ CategoryOf[a] \notin raced => \A r \in InCategory(CategoryOf[a]) : r.at <= started[a]
FoundTip ==
  \A a \in Appends : pc[a] \in {"found", "inserted"} /\ CategoryOf[a] \notin raced =>
    IsTip(CategoryOf[a], last[a])
DraftFits ==
  \A a \in Appends : pc[a] = "inserted" =>
    /\ draft[a].at <= clock
    /\ CategoryOf[a] \notin raced => \A r \in InCategory(CategoryOf[a]) : r.at < draft[a].at

(* The changed row is among the rows and no longer matches its hash. *)
Located ==
  /\ \A r \in rows : r.by \in altered => ~SelfMatches(r)
  /\ \A x \in altered : \E r \in rows : r.by = x
  /\ \A x, y \in altered : x = y

Sound == Chained /\ Distinct /\ Past /\ BegunAfter /\ FoundTip /\ DraftFits /\ Located

IInv == RecordedInv /\ OneOpen /\ Sound

(* Whatever a step does to other categories, a category whose appends have *)
(* not raced after it had none that raced before.                          *)
LEMMA RacedGrows == ASSUME [Next]_vars PROVE raced \subseteq raced'
BY DEF Next, vars, Tick, Alter, Begin, FindLast, Insert, Commit, Abort, NoteRace

LEMMA OneOpenStep == TypeOK /\ OneOpen /\ [Next]_vars => OneOpen'
<1> SUFFICES ASSUME TypeOK, OneOpen, [Next]_vars PROVE OneOpen'
  OBVIOUS
<1>1. CASE Tick \/ Alter \/ UNCHANGED vars
  BY <1>1 DEF Tick, Alter, vars, OneOpen, IsOpen
<1>2. ASSUME NEW a \in Appends, Begin(a) PROVE OneOpen'
  <2>1. pc' = [pc EXCEPT ![a] = "begun"] /\ pc[a] = "idle" /\ raced \subseteq raced'
    BY <1>2 DEF Begin, NoteRace, Goto
  <2>2. CategoryOf[a] \notin raced' =>
          \A b \in Appends : ~(IsOpen(b) /\ CategoryOf[b] = CategoryOf[a])
    BY <1>2 DEF Begin, NoteRace
  <2> QED BY <2>1, <2>2 DEF TypeOK, OneOpen, IsOpen
<1>3. ASSUME NEW a \in Appends, FindLast(a) \/ Insert(a) \/ Commit(a) \/ Abort(a)
      PROVE OneOpen'
  <2>1. /\ pc[a] \in {"begun", "found", "inserted"} /\ raced \subseteq raced'
        /\ \A b \in Appends : b # a => pc'[b] = pc[b]
    BY <1>3, RacedGrows DEF FindLast, Insert, Commit, Abort, Goto, TypeOK, IsOpen
  <2> QED BY <2>1 DEF OneOpen, IsOpen
<1> QED BY <1>1, <1>2, <1>3 DEF Next

(* A commit appends its draft to the chain of its category and leaves the  *)
(* other categories, hence every other open transaction, alone.            *)
LEMMA CommitStep ==
  ASSUME IInv, NEW a \in Appends, Commit(a)
  PROVE  Sound'
<1> DEFINE c == CategoryOf[a]
<1> PICK d : d = draft[a]
  OBVIOUS
<1>1. /\ rows' = rows \cup {d} /\ d \in Rows /\ rows \subseteq Rows
      /\ d.entry.category = c /\ d.prev = last[a] /\ SelfMatches(d) /\ d.at <= clock
      /\ d.by = a /\ altered' = altered /\ raced' = raced /\ clock' = clock
      /\ c \notin raced => (\A r \in InCategory(c) : r.at < d.at) /\ IsTip(c, last[a])
  BY EntryType
     DEF Commit, Goto, IInv, RecordedInv, DraftPosted, Sound, DraftFits, FoundTip, TypeOK
<1>2. \A r \in rows \cup {d} : r.at \in Nat
  BY <1>1 DEF Rows
<1>3. \A r \in rows : r.entry.category \notin raced => Earlier(r)' = Earlier(r)
  BY <1>1, <1>2 DEF Earlier, InCategory
<1>4. c \notin raced => Earlier(d)' = InCategory(c)
  BY <1>1, <1>2 DEF Earlier, InCategory
<1>5. Chained'
  <2>1. \A r \in rows :
          r.by \notin altered /\ r.entry.category \notin raced => Continues(r)'
    BY <1>3 DEF Continues, IInv, Sound, Chained
  <2>2. c \notin raced => Continues(d)'
    BY <1>1, <1>4 DEF Continues, IsTip, Newest
  <2> QED BY <1>1, <2>1, <2>2 DEF Chained
<1>6. Distinct'
  <2>1. \A r, q \in rows :
          r.entry.category = q.entry.category /\ r.entry.category \notin raced /\ r.at = q.at
            => r = q
    BY DEF IInv, Sound, Distinct
  <2>2. \A r \in rows : r.entry.category = c /\ c \notin raced => r.at < d.at
    BY <1>1 DEF InCategory
  <2> QED BY <1>1, <1>2, <2>1, <2>2 DEF Distinct
<1>7. Past'
  BY <1>1 DEF Past, IInv, Sound
<1>8. \A b \in Appends : IsOpen(b)' =>
        /\ IsOpen(b) /\ pc'[b] = pc[b] /\ started'[b] = started[b]
        /\ last'[b] = last[b] /\ draft'[b] = draft[b]
        /\ CategoryOf[b] \notin raced => CategoryOf[b] # c
  <2>1. /\ pc[a] = "inserted" /\ pc'[a] = "ok"
        /\ \A b \in Appends : b # a =>
             /\ pc'[b] = pc[b] /\ started'[b] = started[b]
             /\ last'[b] = last[b] /\ draft'[b] = draft[b]
    BY DEF Commit, Forget, Goto, IInv, RecordedInv, TypeOK
  <2> QED BY <2>1 DEF IsOpen, IInv, OneOpen
<1>9. \A b \in Appends : IsOpen(b)' /\ CategoryOf[b] \notin raced =>
        InCategory(CategoryOf[b])' = InCategory(CategoryOf[b])
  BY <1>1, <1>8 DEF InCategory
<1>10. BegunAfter'
  BY <1>1, <1>8, <1>9 DEF BegunAfter, IInv, Sound
<1>11. FoundTip'
  <2> SUFFICES ASSUME NEW b \in Appends, pc'[b] \in {"found", "inserted"},
                      CategoryOf[b] \notin raced
               PROVE  IsTip(CategoryOf[b], last[b])'
    BY <1>1 DEF FoundTip
  <2>1. IsOpen(b)'
    BY DEF IsOpen
  <2>2. IsTip(CategoryOf[b], last[b]) /\ last'[b] = last[b]
    BY <1>8, <2>1 DEF IInv, Sound, FoundTip
  <2> QED BY <1>9, <2>1, <2>2 DEF IsTip, Newest
<1>12. DraftFits'
  <2> SUFFICES ASSUME NEW b \in Appends, pc'[b] = "inserted"
               PROVE  /\ draft'[b].at <= clock
                      /\ CategoryOf[b] \notin raced =>
                           \A r \in InCategory(CategoryOf[b])' : r.at < draft'[b].at
    BY <1>1 DEF DraftFits
  <2>1. IsOpen(b)'
    BY DEF IsOpen
  <2>2. pc[b] = "inserted" /\ draft'[b] = draft[b]
    BY <1>8, <2>1
  <2> QED BY <1>9, <2>1, <2>2 DEF IInv, Sound, DraftFits
<1>13. \A r \in rows : r.by # a
  BY DEF Commit, Goto, IInv, RecordedInv, Recorded, Own
<1>14. Located'
  <2>1. d.by \notin altered
    BY <1>1, <1>13 DEF IInv, Sound, Located
  <2> QED BY <1>1, <2>1 DEF IInv, Sound, Located, SelfMatches
<1> QED BY <1>5, <1>6, <1>7, <1>10, <1>11, <1>12, <1>14 DEF Sound

(* An append that begins while another of its category is open makes its   *)
(* category one that has raced.                                            *)
LEMMA BeginStep ==
  ASSUME IInv, NEW a \in Appends, Begin(a)
  PROVE  Sound'
<1>1. /\ rows' = rows /\ clock' = clock /\ draft' = draft /\ last' = last
      /\ altered' = altered /\ clock \in Nat /\ raced \subseteq raced'
      /\ \A r \in rows : r.at <= clock
  BY TaxLedgerAssumption DEF Begin, NoteRace, IInv, RecordedInv, TypeOK, Sound, Past
<1>2. \A b \in Appends : pc'[b] \in {"found", "inserted"} => pc'[b] = pc[b]
  BY DEF Begin, Goto, IInv, RecordedInv, TypeOK
<1>3. BegunAfter'
  <2> SUFFICES ASSUME NEW b \in Appends, IsOpen(b)'
               PROVE  /\ started'[b] <= clock
                      /\ CategoryOf[b] \notin raced =>
                           \A r \in InCategory(CategoryOf[b]) : r.at <= started'[b]
    BY <1>1 DEF BegunAfter, InCategory
  <2>1. CASE b = a
    <3>1. started'[b] = clock
      BY <2>1 DEF Begin, IInv, RecordedInv, TypeOK
    <3> QED BY <1>1, <3>1 DEF InCategory
  <2>2. CASE b # a
    <3>1. started'[b] = started[b] /\ IsOpen(b)
      BY <2>2 DEF Begin, Goto, IInv, RecordedInv, TypeOK, IsOpen
    <3> QED BY <3>1 DEF IInv, Sound, BegunAfter
  <2> QED BY <2>1, <2>2
<1>4. FoundTip'
  BY <1>1, <1>2 DEF FoundTip, IInv, Sound, IsTip, InCategory, Newest
<1>5. DraftFits'
  BY <1>1, <1>2 DEF DraftFits, IInv, Sound, InCategory
<1>6. Chained' /\ Distinct' /\ Past'
  BY <1>1 DEF Chained, Distinct, Past, Continues, Earlier, InCategory, IInv, Sound
<1>7. Located'
  BY <1>1 DEF Located, SelfMatches, IInv, Sound
<1> QED BY <1>3, <1>4, <1>5, <1>6, <1>7 DEF Sound

LEMMA FindLastStep ==
  ASSUME IInv, NEW a \in Appends, FindLast(a)
  PROVE  Sound'
<1>1. /\ rows' = rows /\ clock' = clock /\ draft' = draft /\ started' = started
      /\ altered' = altered /\ raced' = raced
  BY DEF FindLast
<1>2. \A b \in Appends : b # a => pc'[b] = pc[b] /\ last'[b] = last[b]
  BY DEF FindLast, Goto, IInv, RecordedInv, TypeOK
<1>3. pc[a] = "begun" /\ pc'[a] = "found" /\ IsTip(CategoryOf[a], last'[a])
  BY DEF FindLast, Goto, IInv, RecordedInv, TypeOK, IsTip
<1>4. FoundTip'
  <2> SUFFICES ASSUME NEW b \in Appends, pc'[b] \in {"found", "inserted"},
                      CategoryOf[b] \notin raced
               PROVE  IsTip(CategoryOf[b], last'[b])
    BY <1>1 DEF FoundTip, IsTip, InCategory, Newest
  <2> QED BY <1>2, <1>3 DEF FoundTip, IInv, Sound
<1>5. BegunAfter'
  BY <1>1, <1>2, <1>3 DEF BegunAfter, IsOpen, InCategory, IInv, Sound
<1>6. DraftFits'
  BY <1>1, <1>2, <1>3 DEF DraftFits, IInv, Sound, InCategory
<1>7. Chained' /\ Distinct' /\ Past'
  BY <1>1 DEF Chained, Distinct, Past, Continues, Earlier, InCategory, IInv, Sound
<1>8. Located'
  BY <1>1 DEF Located, SelfMatches, IInv, Sound
<1> QED BY <1>4, <1>5, <1>6, <1>7, <1>8 DEF Sound

(* So does one that inserts in a millisecond its category has used.        *)
LEMMA InsertStep ==
  ASSUME IInv, NEW a \in Appends, Insert(a)
  PROVE  Sound'
<1>1. /\ rows' = rows /\ clock' = clock /\ last' = last /\ started' = started
      /\ altered' = altered /\ raced \subseteq raced'
  BY DEF Insert, NoteRace
<1>2. \A b \in Appends : b # a => pc'[b] = pc[b] /\ draft'[b] = draft[b]
  BY DEF Insert, Goto, IInv, RecordedInv, TypeOK
<1>3. pc[a] = "found" /\ pc'[a] = "inserted"
  BY DEF Insert, Goto, IInv, RecordedInv, TypeOK
<1>4. PICK now \in started[a]..clock :
        /\ NoteRace(a, \E r \in InCategory(CategoryOf[a]) : r.at = now)
        /\ draft' = [draft EXCEPT ![a] =
             [by |-> a, entry |-> Entry(a), prev |-> last[a],
              hash |-> HashSelf(last[a], Entry(a)), at |-> now]]
  BY DEF Insert
<1>5. /\ CategoryOf[a] \notin raced' => \A r \in InCategory(CategoryOf[a]) : r.at # now
      /\ draft'[a].at = now
  BY <1>4 DEF NoteRace, IInv, RecordedInv, TypeOK
<1>6. /\ now \in Int /\ started[a] <= now /\ now <= clock /\ started[a] \in Int
      /\ \A r \in rows : r.at \in Int
  BY TaxLedgerAssumption DEF IInv, RecordedInv, TypeOK, Rows
<1>7. DraftFits'
  <2> SUFFICES ASSUME NEW b \in Appends, pc'[b] = "inserted"
               PROVE  /\ draft'[b].at <= clock
                      /\ CategoryOf[b] \notin raced' =>
                           \A r \in InCategory(CategoryOf[b]) : r.at < draft'[b].at
    BY <1>1 DEF DraftFits, InCategory
  <2>1. CASE b = a
    <3>1. CategoryOf[a] \notin raced' =>
            \A r \in InCategory(CategoryOf[a]) : r \in rows /\ r.at <= started[a] /\ r.at # now
      BY <1>1, <1>3, <1>5 DEF IInv, Sound, BegunAfter, IsOpen, InCategory
    <3>2. CategoryOf[a] \notin raced' => \A r \in InCategory(CategoryOf[a]) : r.at < now
      BY <1>6, <3>1
    <3> QED BY <1>5, <1>6, <2>1, <3>2
  <2>2. CASE b # a
    BY <1>1, <1>2, <2>2 DEF IInv, Sound, DraftFits
  <2> QED BY <2>1, <2>2
<1>8. BegunAfter'
  BY <1>1, <1>2, <1>3 DEF BegunAfter, IsOpen, InCategory, IInv, Sound
<1>9. FoundTip'
  BY <1>1, <1>2, <1>3 DEF FoundTip, IsTip, InCategory, Newest, IInv, Sound
<1>10. Chained' /\ Distinct' /\ Past'
  BY <1>1 DEF Chained, Distinct, Past, Continues, Earlier, InCategory, IInv, Sound
<1>11. Located'
  BY <1>1 DEF Located, SelfMatches, IInv, Sound
<1> QED BY <1>7, <1>8, <1>9, <1>10, <1>11 DEF Sound

(* Tick, an abort and stuttering leave the tables alone. *)
LEMMA QuietStep ==
  ASSUME IInv,
         Tick \/ (\E a \in Appends : Abort(a)) \/ UNCHANGED vars
  PROVE  Sound'
<1>1. /\ rows' = rows /\ altered' = altered /\ raced' = raced
      /\ clock <= clock' /\ clock \in Int /\ clock' \in Int
  BY TaxLedgerAssumption DEF Tick, Abort, vars, IInv, RecordedInv, TypeOK
<1>2. \A b \in Appends : pc'[b] # "failed" =>
        /\ pc'[b] = pc[b] /\ last'[b] = last[b] /\ started'[b] = started[b]
        /\ draft'[b] = draft[b]
  BY DEF Tick, Abort, Forget, vars, IInv, RecordedInv, TypeOK
<1>3. /\ \A r \in rows : r.at \in Int
      /\ \A b \in Appends : started[b] \in Int /\ draft[b].at \in Int
  BY DEF IInv, RecordedInv, TypeOK, Rows
<1>4. Chained' /\ Distinct'
  BY <1>1 DEF Chained, Distinct, Continues, Earlier, InCategory, IInv, Sound
<1>5. Past'
  BY <1>1, <1>3 DEF Past, IInv, Sound
<1>6. BegunAfter'
  BY <1>1, <1>2, <1>3 DEF BegunAfter, IsOpen, InCategory, IInv, Sound
<1>7. FoundTip'
  BY <1>1, <1>2 DEF FoundTip, IsTip, InCategory, Newest, IInv, Sound
<1>8. DraftFits'
  BY <1>1, <1>2, <1>3 DEF DraftFits, InCategory, IInv, Sound
<1>9. Located'
  BY <1>1 DEF Located, SelfMatches, IInv, Sound
<1> QED BY <1>4, <1>5, <1>6, <1>7, <1>8, <1>9 DEF Sound

(* It no longer matches the hash. *)
LEMMA ForgeryKeeps ==
  ASSUME TypeOK, NEW r \in rows, NEW f \in Forgeries(r) \ {r}, SelfMatches(r)
  PROVE  /\ f.by = r.by /\ f.at = r.at /\ f.hash = r.hash
         /\ f.entry.category = r.entry.category
         /\ ~SelfMatches(f)
<1>1. r \in Rows /\ f \in Rows
  BY ForgeryType DEF TypeOK
<1>2. /\ f.by = r.by /\ f.at = r.at /\ f.hash = r.hash
      /\ f.entry.category = r.entry.category
  BY ForgeryFields
<1>3. f.prev # r.prev \/ f.entry # r.entry
  BY <1>1, <1>2 DEF Rows
<1>4. /\ r.prev \in Seq(Entries) /\ f.prev \in Seq(Entries)
      /\ r.entry \in Entries /\ f.entry \in Entries
  BY <1>1 DEF Rows, Hashes
<1>5. Append(f.prev, f.entry) # Append(r.prev, r.entry)
  BY <1>3, <1>4, HashInjective
<1> QED BY <1>2, <1>5 DEF SelfMatches, HashSelf

LEMMA AlterStep == ASSUME IInv, Alter PROVE Sound'
<1>1. PICK r \in rows : \E f \in Forgeries(r) \ {r} :
        rows' = (rows \ {r}) \cup {f} /\ altered' = {r.by}
  BY DEF Alter
<1>2. PICK f \in Forgeries(r) \ {r} : rows' = (rows \ {r}) \cup {f} /\ altered' = {r.by}
  BY <1>1
<1>3. /\ altered = {} /\ pc' = pc /\ started' = started /\ last' = last
      /\ draft' = draft /\ clock' = clock /\ raced' = raced
  BY DEF Alter
<1>4. SelfMatches(r)
  BY <1>3 DEF IInv, RecordedInv, Recorded
<1>5. /\ f.by = r.by /\ f.at = r.at /\ f.hash = r.hash
      /\ f.entry.category = r.entry.category /\ ~SelfMatches(f)
  BY <1>4, ForgeryKeeps DEF IInv, RecordedInv
<1>6. \A c : \A q \in InCategory(c)' : \E p \in InCategory(c) :
        p.at = q.at /\ p.hash = q.hash
  BY <1>2, <1>5 DEF InCategory
<1>7. \A c : \A p \in InCategory(c) : \E q \in InCategory(c)' :
        p.at = q.at /\ p.hash = q.hash
  BY <1>2, <1>5 DEF InCategory
<1>8. Chained'
  <2> SUFFICES ASSUME NEW q \in rows', q.by # r.by, q.entry.category \notin raced
               PROVE  Continues(q)'
    BY <1>2, <1>3 DEF Chained
  <2>1. q \in rows /\ Continues(q)
    BY <1>2, <1>3, <1>5 DEF IInv, Sound, Chained
  <2>2. \A p \in Earlier(q)' : \E o \in Earlier(q) : o.at = p.at /\ o.hash = p.hash
    BY <1>6 DEF Earlier
  <2>3. \A o \in Earlier(q) : \E p \in Earlier(q)' : o.at = p.at /\ o.hash = p.hash
    BY <1>7 DEF Earlier
  <2>4. Continues(q)'
    BY <2>1, <2>2, <2>3 DEF Continues
  <2> QED BY <2>1, <2>4
<1>9. Distinct' /\ Past'
  BY <1>2, <1>3, <1>5 DEF IInv, Sound, Distinct, Past
<1>10. BegunAfter'
  BY <1>3, <1>6 DEF BegunAfter, IsOpen, IInv, Sound
<1>11. \A c, h : IsTip(c, h) => IsTip(c, h)'
  BY <1>6, <1>7 DEF IsTip, Newest
<1>12. FoundTip'
  BY <1>3, <1>11 DEF FoundTip, IInv, Sound
<1>13. DraftFits'
  BY <1>3, <1>6 DEF DraftFits, IInv, Sound
<1>14. Located'
  BY <1>2, <1>3, <1>5 DEF IInv, RecordedInv, Recorded, Sound, Own, Located, SelfMatches
<1> QED BY <1>8, <1>9, <1>10, <1>12, <1>13, <1>14 DEF Sound
-----------------------------------------------------------------------------
LEMMA InvInit == Init => IInv
<1> SUFFICES ASSUME Init PROVE IInv
  OBVIOUS
<1>1. RecordedInv
  BY RecordedInit
<1>2. OneOpen /\ Sound
  BY DEF Init, OneOpen, IsOpen, Sound, Chained, Distinct, Past, BegunAfter, FoundTip, DraftFits,
     Located
<1> QED BY <1>1, <1>2 DEF IInv

LEMMA InvStep == IInv /\ [Next]_vars => IInv'
<1> SUFFICES ASSUME IInv, [Next]_vars PROVE IInv'
  OBVIOUS
<1>1. RecordedInv'
  BY RecordedStep DEF IInv
<1>2. OneOpen'
  BY OneOpenStep DEF IInv, RecordedInv
<1>3. Sound'
  <2>1. CASE Tick \/ (\E a \in Appends : Abort(a)) \/ UNCHANGED vars
    BY <2>1, QuietStep
  <2>2. CASE \E a \in Appends : Begin(a)
    BY <2>2, BeginStep
  <2>3. CASE \E a \in Appends : FindLast(a)
    BY <2>3, FindLastStep
  <2>4. CASE \E a \in Appends : Insert(a)
    BY <2>4, InsertStep
  <2>5. CASE \E a \in Appends : Commit(a)
    BY <2>5, CommitStep
  <2>6. CASE Alter
    BY <2>6, AlterStep
  <2> QED BY <2>1, <2>2, <2>3, <2>4, <2>5, <2>6 DEF Next
<1> QED BY <1>1, <1>2, <1>3 DEF IInv

LEMMA Invariance == Spec => []IInv
BY InvInit, InvStep, PTL DEF Spec

(* However appends overlap, every entry matches its hash and continues one *)
(* of its category that is there, and a category none of whose appends     *)
(* have raced has one chain ordered by createdAt.                          *)
THEOREM LinearAlways == Spec => []Linear
<1>1. IInv => Linear
  BY DEF IInv, RecordedInv, Recorded, Sound, Linear, Chained, Distinct
<1> QED BY <1>1, Invariance, PTL

(* In a scan sorted by createdAt, the last row of a category seen before a *)
(* row is the newest earlier one: a row nobody changed is accepted.        *)
LEMMA ScanValid ==
  ASSUME IInv, NEW es \in Scans, NEW i \in DOMAIN es,
         es[i].by \notin altered, ~Raced(es, i)
  PROVE  Valid(es, i)
<1> DEFINE c == es[i].entry.category
<1>0. TypeOK /\ Chained /\ Distinct /\ Recorded /\ c \notin raced
  BY DEF IInv, RecordedInv, Sound, Raced
<1> DEFINE n == Cardinality(rows)
<1>1. /\ n \in Nat /\ DOMAIN es = 1..n
      /\ \A j \in 1..n : es[j] \in rows /\ es[j].at \in Nat
  <2>1. n \in Nat
    BY <1>0, FS_CardinalityType DEF TypeOK
  <2>2. es \in [1..n -> rows]
    BY DEF Scans
  <2>3. \A r \in rows : r.at \in Nat
    BY <1>0 DEF TypeOK, Rows
  <2> QED BY <2>1, <2>2, <2>3
<1>2. \A j, k \in 1..n : j < k => es[j].at <= es[k].at
  BY <1>1 DEF Scans
<1>3. \A j, k \in 1..n : es[j] = es[k] => j = k
  BY <1>1 DEF Scans, IsInjective
<1>4. \A r \in rows : \E j \in 1..n : es[j] = r
  BY <1>1 DEF Scans
<1>5. \A j, k \in 1..n :
        es[j].entry.category = c /\ es[k].entry.category = c /\ j # k => es[j].at # es[k].at
  BY <1>0, <1>1, <1>3 DEF Distinct
<1> HIDE DEF n
<1>6. i \in 1..n /\ \A j \in Seen(es, i) : j \in 1..n /\ j < i
  BY <1>1 DEF Seen
<1>7. \A j \in Seen(es, i) : es[j] \in Earlier(es[i])
  BY <1>1, <1>2, <1>5, <1>6 DEF Earlier, InCategory, Seen
<1>8. \A q \in Earlier(es[i]) : \E j \in Seen(es, i) : es[j] = q
  <2> SUFFICES ASSUME NEW q \in Earlier(es[i]) PROVE \E j \in Seen(es, i) : es[j] = q
    OBVIOUS
  <2>1. q \in rows /\ q.at < es[i].at /\ q.entry.category = es[i].entry.category
    BY DEF Earlier, InCategory
  <2>2. PICK j \in 1..n : es[j] = q
    BY <1>4, <2>1
  <2>3. j < i
    BY <1>1, <1>2, <1>6, <2>1, <2>2
  <2> QED BY <1>6, <2>1, <2>2, <2>3 DEF Seen
<1>9. PrevMatches(es, i)
  <2>1. Continues(es[i])
    BY <1>0, <1>1, <1>6 DEF Chained
  <2>2. CASE Earlier(es[i]) = {} /\ es[i].prev = <<>>
    BY <1>7, <2>2 DEF PrevMatches
  <2>3. ASSUME NEW q \in Earlier(es[i]), \A p \in Earlier(es[i]) : p.at <= q.at,
               es[i].prev = q.hash
        PROVE  PrevMatches(es, i)
    <3>1. PICK j \in Seen(es, i) : es[j] = q
      BY <1>8
    <3>2. ASSUME NEW k \in Seen(es, i) PROVE k <= j
      <4>1. es[k].at <= es[j].at
        BY <1>7, <2>3, <3>1
      <4>2. es[k].entry.category = c /\ es[j].entry.category = c
        BY DEF Seen
      <4>3. j \in 1..n /\ k \in 1..n
        BY <1>6
      <4>4. j < k => es[j].at <= es[k].at /\ es[j].at # es[k].at
        BY <1>1, <1>2, <1>5, <4>2, <4>3
      <4> QED BY <1>1, <4>1, <4>3, <4>4
    <3> QED BY <2>3, <3>1, <3>2 DEF PrevMatches
  <2> QED BY <2>1, <2>2, <2>3 DEF Continues
<1>10. SelfMatches(es[i])
  BY <1>0, <1>1, <1>6 DEF Recorded
<1> QED BY <1>9, <1>10 DEF Valid

(* verifyLedgerChain rejects no row of an unaltered ledger but of a        *)
(* category whose appends have raced, in whatever order the database       *)
(* returns rows of one millisecond, for any number of entries.             *)
THEOREM UntamperedAlways == Spec => []Untampered
<1>1. IInv => Untampered
  BY ScanValid DEF Untampered
<1> QED BY <1>1, Invariance, PTL

(* verifyLedgerChain rejects the row that was changed, whether its amount  *)
(* or its hashPrev was, and the first row it rejects is that one or one of *)
(* a category whose appends have raced, however many entries were appended *)
(* since and in whatever order rows of one millisecond come back.          *)
THEOREM TamperLocatedAlways == Spec => []TamperLocated
<1>1. ASSUME IInv, altered # {}, NEW es \in Scans
      PROVE  \E i \in DOMAIN es :
               /\ es[i].by \in altered /\ ~Valid(es, i)
               /\ \A j \in DOMAIN es : FirstInvalid(es, j) => j = i \/ Raced(es, j)
  <2>1. PICK r \in rows : r.by \in altered /\ ~SelfMatches(r)
    BY <1>1 DEF IInv, Sound, Located
  <2>2. PICK i \in DOMAIN es : es[i] = r
    BY DEF Scans
  <2>3. /\ DOMAIN es = 1..Cardinality(rows) /\ Cardinality(rows) \in Nat
        /\ \A j \in DOMAIN es : es[j] \in rows
        /\ \A j \in DOMAIN es : es[j] = es[i] => j = i
    BY <1>1, FS_CardinalityType DEF Scans, IsInjective, IInv, RecordedInv, TypeOK
  <2>4. ~Valid(es, i)
    BY <2>1, <2>2 DEF Valid
  <2>5. ASSUME NEW j \in DOMAIN es, j # i PROVE Valid(es, j) \/ Raced(es, j)
    <3>1. es[j].by \notin altered
      BY <1>1, <2>1, <2>2, <2>3, <2>5 DEF IInv, RecordedInv, Recorded, Sound, Own, Located
    <3> QED BY <1>1, <3>1, ScanValid
  <2> QED BY <2>1, <2>2, <2>4, <2>5 DEF FirstInvalid
<1>2. IInv => TamperLocated
  BY <1>1 DEF TamperLocated
<1> QED BY <1>2, Invariance, PTL

(* A category whose appends have not raced has at most one newest hash. *)
LEMMA OneTip ==
  ASSUME TypeOK, Distinct, NEW c, c \notin raced, NEW g \in Tips(c), NEW h \in Tips(c)
  PROVE  g = h
<1>1. PICK r \in InCategory(c) : Newest(r, c) /\ g = r.hash
  BY DEF Tips
<1>2. PICK q \in InCategory(c) : Newest(q, c) /\ h = q.hash
  BY DEF Tips
<1>3. r.at <= q.at /\ q.at <= r.at /\ r.at \in Nat /\ q.at \in Nat
  BY <1>1, <1>2 DEF Newest, InCategory, TypeOK, Rows
<1>4. r = q
  BY <1>3 DEF Distinct, InCategory
<1> QED BY <1>1, <1>2, <1>4

LEMMA GrowsStep ==
  ASSUME IInv, [Next]_vars, rows' # rows, altered' = {},
         NEW c \in {CategoryOf[a] : a \in Appends} \ raced', NEW h \in Tips(c), NEW g \in Tips(c)'
  PROVE  g = h \/ \E e \in Entries : g = Append(h, e)
<1>1. altered = {} /\ raced' = raced /\ \E a \in Appends : Commit(a)
  BY DEF Next, Tick, Alter, Begin, FindLast, Insert, Commit, Abort, vars
<1>2. PICK a \in Appends : Commit(a)
  BY <1>1
<1>3. PICK d : d = draft[a]
  OBVIOUS
<1>4. /\ rows' = rows \cup {d} /\ d.entry.category = CategoryOf[a] /\ Entry(a) \in Entries
      /\ d.hash = Append(last[a], Entry(a))
      /\ CategoryOf[a] \notin raced =>
           (\A r \in InCategory(CategoryOf[a]) : r.at < d.at) /\ IsTip(CategoryOf[a], last[a])
  BY <1>1, <1>2, <1>3, EntryType
     DEF Commit, Goto, IInv, RecordedInv, DraftPosted, Sound, DraftFits, FoundTip, TypeOK,
         SelfMatches, HashSelf
<1>5. Distinct /\ TypeOK /\ c \notin raced
  BY <1>1 DEF IInv, RecordedInv, Sound
<1>6. PICK r \in InCategory(c)' : r \in rows' /\ Newest(r, c)' /\ g = r.hash
  BY DEF Tips, InCategory
<1>7. CASE c = CategoryOf[a]
  <2>1. d \in InCategory(c)'
    BY <1>4, <1>7 DEF InCategory
  <2>2. d.at \in Int /\ r.at \in Int
    BY <1>3, <1>4, <1>5, <1>6 DEF TypeOK, Rows
  <2>3. r = d
    BY <1>4, <1>5, <1>6, <1>7, <2>1, <2>2 DEF Newest, InCategory
  <2>4. last[a] \in Tips(c)
    BY <1>4, <1>5, <1>7 DEF IsTip, Tips
  <2>5. last[a] = h
    BY <1>5, <2>4, OneTip
  <2> QED BY <1>4, <1>6, <2>3, <2>5
<1>8. CASE c # CategoryOf[a]
  <2>1. InCategory(c)' = InCategory(c)
    BY <1>4, <1>8 DEF InCategory
  <2>2. g \in Tips(c)
    BY <1>6, <2>1 DEF Tips, Newest
  <2> QED BY <1>5, <2>2, OneTip
<1> QED BY <1>7, <1>8

(* An entry that was answered ok stays in every later chain of its         *)
(* category, unless two of its appends race.                               *)
THEOREM ChainGrowsAlways == Spec => ChainGrows
<1>1. IInv /\ [Next]_vars =>
        [altered' = {} =>
           \A c \in {CategoryOf[a] : a \in Appends} \ raced' : \A h \in Tips(c) :
             \A g \in Tips(c)' : g = h \/ \E e \in Entries : g = Append(h, e)]_rows
  BY GrowsStep
<1> QED BY <1>1, Invariance, PTL DEF ChainGrows, Spec

-----------------------------------------------------------------------------
(* The audit trail.                                                        *)

(* A row was written by a call that is over, and continues what it found.  *)
Written ==
  \A row \in trail :
    /\ phase[row.by] \in {"ok", "failed"}
    /\ row.hash = Append(row.prev, row.by)
    /\ row.at <= auditClock

(* What a call has found is there, and no younger than its search.         *)
Found(r) ==
  /\ since[r] <= auditClock
  /\ phase[r] = "idle" => saw[r] = <<>>
  /\ phase[r] = "found" =>
       saw[r] = <<>> \/ \E p \in trail : p.hash = saw[r] /\ p.at <= since[r]

(* One record at a time finds the last row there is.                       *)
Alone == \A r, q \in Records : phase[r] = "found" /\ phase[q] = "found" => r = q
Tip(r) ==
  \/ trail = {} /\ saw[r] = <<>>
  \/ \E p \in trail : Trail!Newest(p) /\ p.hash = saw[r] /\ p.at <= since[r]

TrailInv ==
  /\ Trail!TypeOK /\ Written /\ Trail!Rooted /\ Trail!CriticalRecorded
  /\ \A r \in Records : Found(r)
  /\ ~overlap => Trail!InLine /\ Alone /\ \A r \in Records : phase[r] = "found" => Tip(r)
-----------------------------------------------------------------------------
LEMMA TrailInitially == ASSUME Trail!Init PROVE TrailInv
<1> USE TrailsAssumption
<1>1. <<>> \in Seq(Records)
  OBVIOUS
<1>2. QED
  BY <1>1
     DEF Trail!Init, TrailInv, Trail!TypeOK, Trail!Rows, Written, Trail!Rooted,
         Trail!CriticalRecorded, Found,
         Trail!InLine, Alone

LEMMA RecordTickStep == ASSUME TrailInv, Trail!Tick, UNCHANGED overlap PROVE TrailInv'
<1> USE TrailsAssumption
<1>1. auditClock' \in 0..MaxAuditClock /\ auditClock < auditClock' /\ UNCHANGED <<trail, phase, saw, since>>
  BY DEF Trail!Tick, TrailInv, Trail!TypeOK
<1>2. Trail!TypeOK'
  BY <1>1 DEF TrailInv, Trail!TypeOK
<1>3. Written' /\ \A r \in Records : Found(r)'
  BY <1>1, <1>2 DEF TrailInv, Trail!TypeOK, Trail!Rows, Written, Found
<1>4. QED
  BY <1>1, <1>2, <1>3
     DEF TrailInv, Trail!Rooted, Trail!CriticalRecorded, Trail!InLine, Trail!Before, Alone,
         Tip, Trail!Newest

(* A search finds a row that is there, the last one.                       *)
LEMMA RecordFindStep == ASSUME TrailInv, NEW r \in Records, Trail!FindFirst(r), UNCHANGED overlap PROVE TrailInv'
<1> USE TrailsAssumption
<1>1. /\ phase[r] = "idle" /\ phase' = [phase EXCEPT ![r] = "found"]
      /\ since' = [since EXCEPT ![r] = auditClock]
      /\ trail' = trail /\ auditClock' = auditClock
      /\ \/ trail = {} /\ saw' = saw
         \/ \E row \in trail : Trail!Newest(row) /\ saw' = [saw EXCEPT ![r] = row.hash]
      /\ overlap \/ \A q \in Records : phase[q] # "found"
  BY DEF Trail!FindFirst, Trail!Enter
<1>2. /\ phase \in [Records -> {"idle", "found", "ok", "failed"}]
      /\ saw \in [Records -> Seq(Records)] /\ since \in [Records -> 0..MaxAuditClock]
      /\ auditClock \in 0..MaxAuditClock /\ trail \subseteq Trail!Rows /\ MaxAuditClock \in Nat
      /\ overlap \in BOOLEAN
  BY DEF TrailInv, Trail!TypeOK
<1>3. Trail!TypeOK'
  <2>1. \A row \in trail : row.hash \in Seq(Records)
    BY <1>2 DEF Trail!Rows
  <2>2. saw' \in [Records -> Seq(Records)]
    BY <1>1, <1>2, <2>1
  <2>3. QED
    BY <1>1, <1>2, <2>2 DEF Trail!TypeOK
<1>4. Tip(r)'
  <2>1. \A row \in trail : row.at <= auditClock
    BY DEF TrailInv, Written
  <2>2. since'[r] = auditClock /\ saw[r] = <<>>
    BY <1>1, <1>2 DEF TrailInv, Found
  <2>3. QED
    BY <1>1, <1>2, <2>1, <2>2 DEF Tip, Trail!Newest
<1>5. Written'
  <2>1. \A row \in trail : row.by # r /\ row.by \in Records
    BY <1>1, <1>2 DEF TrailInv, Written, Trail!Rows
  <2>2. QED
    BY <1>1, <1>2, <2>1 DEF TrailInv, Written
<1>6. ASSUME NEW q \in Records PROVE Found(q)'
  <2>1. CASE q = r
    BY <1>1, <1>2, <1>4, <2>1 DEF Tip, Found
  <2>2. CASE q # r
    BY <1>1, <1>2, <2>2 DEF TrailInv, Found
  <2>3. QED
    BY <2>1, <2>2
<1>7. Trail!Rooted' /\ Trail!CriticalRecorded'
  BY <1>1, <1>2 DEF TrailInv, Trail!Rooted, Trail!CriticalRecorded
<1>8. ASSUME ~overlap
      PROVE  Trail!InLine' /\ Alone' /\ \A q \in Records : phase'[q] = "found" => Tip(q)'
  <2>1. \A q \in Records : phase'[q] = "found" => q = r
    BY <1>1, <1>2, <1>8
  <2>2. Trail!InLine'
    BY <1>1, <1>8 DEF TrailInv, Trail!InLine, Trail!Before
  <2>3. QED
    BY <1>4, <2>1, <2>2 DEF Alone
<1>9. QED
  BY <1>3, <1>5, <1>6, <1>7, <1>8 DEF TrailInv

(* A failure writes nothing.                                               *)
LEMMA RecordFailStep == ASSUME TrailInv, NEW r \in Records, Trail!Fail(r), UNCHANGED overlap PROVE TrailInv'
<1> USE TrailsAssumption
<1>1. /\ phase[r] \in {"idle", "found"}
      /\ phase' = [phase EXCEPT ![r] = IF r \in Critical THEN "failed" ELSE "ok"]
      /\ UNCHANGED <<trail, saw, since, auditClock>>
  BY DEF Trail!Fail, Trail!OnError
<1>2. /\ phase \in [Records -> {"idle", "found", "ok", "failed"}]
      /\ \A row \in trail : row.by \in Records
  BY DEF TrailInv, Trail!TypeOK, Trail!Rows
<1>3. Trail!TypeOK' /\ Written'
  BY <1>1, <1>2 DEF TrailInv, Trail!TypeOK, Written
<1>4. \A q \in Records : Found(q)'
  BY <1>1, <1>2 DEF TrailInv, Found
<1>5. Trail!Rooted' /\ Trail!CriticalRecorded'
  BY <1>1, <1>2 DEF TrailInv, Trail!Rooted, Trail!CriticalRecorded
<1>6. ASSUME ~overlap
      PROVE  Trail!InLine' /\ Alone' /\ \A q \in Records : phase'[q] = "found" => Tip(q)'
  BY <1>1, <1>2, <1>6 DEF TrailInv, Trail!InLine, Trail!Before, Alone, Tip, Trail!Newest
<1>7. QED
  BY <1>3, <1>4, <1>5, <1>6 DEF TrailInv
-----------------------------------------------------------------------------
(* An insert chains the new row to one that is there.  Without overlap it  *)
(* is the last one, and the new row is younger than all.                   *)
LEMMA RecordCreateStep ==
  ASSUME TrailInv, NEW r \in Records, NEW to \in {"ok", "failed"}, Trail!Create(r, to),
         UNCHANGED overlap
  PROVE  TrailInv'
<1> USE TrailsAssumption
<1>1. PICK at \in since[r]..auditClock :
        /\ overlap \/ \A row \in trail : row.at # at
        /\ trail' = trail \cup {Trail!Row(r, at)}
  BY DEF Trail!Create
<1>2. PICK row : row = Trail!Row(r, at)
  OBVIOUS
<1>3. /\ phase[r] = "found" /\ phase' = [phase EXCEPT ![r] = to]
      /\ UNCHANGED <<saw, since, auditClock>>
      /\ trail' = trail \cup {row}
      /\ row.by = r /\ row.at = at /\ row.prev = saw[r] /\ row.hash = Append(saw[r], r)
  BY <1>1, <1>2 DEF Trail!Create, Trail!Enter, Trail!Row, Trail!Hash
<1>4. /\ phase \in [Records -> {"idle", "found", "ok", "failed"}]
      /\ saw \in [Records -> Seq(Records)] /\ since \in [Records -> 0..MaxAuditClock]
      /\ auditClock \in 0..MaxAuditClock /\ trail \subseteq Trail!Rows /\ MaxAuditClock \in Nat
      /\ overlap \in BOOLEAN
      /\ at \in 0..MaxAuditClock /\ since[r] <= at /\ at <= auditClock
  BY <1>1 DEF TrailInv, Trail!TypeOK
<1>5. row \in Trail!Rows
  <2>1. Append(saw[r], r) \in Seq(Records)
    BY <1>4
  <2>2. QED
    BY <1>2, <1>4, <2>1 DEF Trail!Row, Trail!Rows, Trail!Hash
<1>6. Trail!TypeOK'
  <2>1. trail' \subseteq Trail!Rows
    BY <1>3, <1>4, <1>5
  <2>2. phase' \in [Records -> {"idle", "found", "ok", "failed"}]
    BY <1>3, <1>4
  <2>3. QED
    BY <1>3, <1>4, <2>1, <2>2 DEF Trail!TypeOK
<1>7. \A p \in trail : p.by # r /\ p.by \in Records /\ p.at \in Nat
  <2>1. \A p \in trail : p.by \in Records /\ p.at \in Nat
    BY <1>4 DEF Trail!Rows
  <2>2. \A p \in trail : phase[p.by] # "found"
    BY DEF TrailInv, Written
  <2>3. QED
    BY <1>3, <2>1, <2>2
<1>8. Written'
  BY <1>3, <1>4, <1>7 DEF TrailInv, Written
<1>9. \A q \in Records : Found(q)'
  BY <1>3, <1>4 DEF TrailInv, Found
<1>10. Trail!CriticalRecorded'
  BY <1>3, <1>4 DEF TrailInv, Trail!CriticalRecorded
<1>11. Trail!Rooted'
  <2>1. saw[r] = <<>> \/ \E p \in trail : p.hash = saw[r] /\ p.at <= since[r]
    BY <1>3 DEF TrailInv, Found
  <2>2. row.prev = <<>> \/ \E p \in trail : p # row /\ p.hash = row.prev /\ p.at <= row.at
    <3>1. ASSUME NEW p \in trail, p.hash = saw[r], p.at <= since[r]
          PROVE  p # row /\ p.hash = row.prev /\ p.at <= row.at
      <4>1. p.at \in Nat /\ since[r] \in Nat /\ at \in Nat /\ since[r] <= at
        BY <1>4, <1>7
      <4>2. p.at <= at
        BY <3>1, <4>1
      <4>3. p.by # r /\ row.by = r /\ row.at = at /\ row.prev = saw[r]
        BY <1>3, <1>7
      <4>4. QED
        BY <3>1, <4>2, <4>3
    <3>2. CASE saw[r] = <<>>
      BY <1>3, <3>2
    <3>3. CASE \E p \in trail : p.hash = saw[r] /\ p.at <= since[r]
      <4>1. PICK p \in trail : p.hash = saw[r] /\ p.at <= since[r]
        BY <3>3
      <4>2. p # row /\ p.hash = row.prev /\ p.at <= row.at
        BY <3>1, <4>1
      <4>3. QED
        BY <4>2
    <3>4. QED
      BY <2>1, <3>2, <3>3
  <2>3. QED
    BY <1>3, <2>2 DEF TrailInv, Trail!Rooted
<1>12. ASSUME ~overlap PROVE Trail!InLine'
  <2>1. Tip(r)
    BY <1>3, <1>12 DEF TrailInv
  <2>2. \A p \in trail : p.at < at
    <3>1. \A p \in trail : p.at <= since[r] /\ p.at # at
      BY <1>1, <1>4, <1>7, <1>12, <2>1 DEF Tip, Trail!Newest
    <3>2. QED
      BY <1>4, <1>7, <3>1
  <2>3. \A p \in trail : Trail!Before(p)' = Trail!Before(p)
    BY <1>3, <1>4, <1>7, <2>2 DEF Trail!Before
  <2>4. Trail!Before(row)' = trail
    BY <1>3, <1>4, <1>7, <2>2 DEF Trail!Before
  <2>5. \A p, q \in trail' : p.at = q.at => p = q
    BY <1>3, <1>4, <1>7, <1>12, <2>2 DEF TrailInv, Trail!InLine
  <2>6. \/ trail = {} /\ row.prev = <<>>
        \/ \E p \in trail : Trail!Before(p) \cup {p} = trail /\ p.hash = row.prev
    <3>1. ASSUME NEW p \in trail, Trail!Newest(p) PROVE Trail!Before(p) \cup {p} = trail
      BY <1>3, <1>7, <2>5, <3>1 DEF Trail!Before, Trail!Newest
    <3>2. QED
      BY <1>3, <2>1, <3>1 DEF Tip
  <2>7. ASSUME NEW q \in trail'
        PROVE  \/ Trail!Before(q)' = {} /\ q.prev = <<>>
               \/ \E p \in Trail!Before(q)' : Trail!Before(p)' \cup {p} = Trail!Before(q)' /\ p.hash = q.prev
    <3>1. CASE q = row
      BY <2>3, <2>4, <2>6, <3>1
    <3>2. CASE q \in trail
      <4>1. \/ Trail!Before(q) = {} /\ q.prev = <<>>
            \/ \E p \in Trail!Before(q) : Trail!Before(p) \cup {p} = Trail!Before(q) /\ p.hash = q.prev
        BY <1>12, <3>2 DEF TrailInv, Trail!InLine
      <4>2. Trail!Before(q) \subseteq trail
        BY DEF Trail!Before
      <4>3. QED
        BY <2>3, <3>2, <4>1, <4>2
    <3>3. QED
      BY <1>3, <3>1, <3>2
  <2>8. QED
    BY <2>5, <2>7 DEF Trail!InLine
<1>13. ASSUME ~overlap
       PROVE  Alone' /\ \A q \in Records : phase'[q] = "found" => Tip(q)'
  BY <1>3, <1>4, <1>13 DEF TrailInv, Alone
<1>14. QED
  BY <1>6, <1>8, <1>9, <1>10, <1>11, <1>12, <1>13 DEF TrailInv

LEMMA TrailInvStep == TrailInv /\ [Trail!Next]_(Trail!auditVars) => TrailInv'
<1> SUFFICES ASSUME TrailInv, [Trail!Next]_(Trail!auditVars) PROVE TrailInv'
  OBVIOUS
<1>1. ASSUME NEW r \in Records, Trail!Write(r), UNCHANGED overlap PROVE TrailInv'
  <2>1. Trail!OnError(r) \in {"ok", "failed"}
    BY DEF Trail!OnError
  <2>2. QED
    BY <1>1, <2>1, RecordFindStep, RecordCreateStep, RecordFailStep DEF Trail!Write
<1>2. CASE UNCHANGED Trail!auditVars
  BY <1>2
     DEF Trail!auditVars, TrailInv, Trail!TypeOK, Written, Trail!Rooted,
         Trail!CriticalRecorded, Found, Trail!InLine,
         Trail!Before, Alone, Tip, Trail!Newest
<1>3. QED
  BY <1>1, <1>2, RecordTickStep DEF Trail!Next

(* For any number of records: each is chained to a record that exists and  *)
(* is no younger, a critical one reported written is there, and if they do *)
(* not overlap the records are one chain in the order of createdAt.        *)
THEOREM TrailSoundAlways == Trail!Spec => []TrailSound
<1>1. Trail!Init => TrailInv
  BY TrailInitially
<1>2. TrailInv /\ [Trail!Next]_(Trail!auditVars) => TrailInv'
  BY TrailInvStep
<1>3. TrailInv => TrailSound
  BY DEF TrailInv, TrailSound, Trail!TrailSound, Trail!Chained
<1>4. QED
  BY <1>1, <1>2, <1>3, PTL DEF Trail!Spec
=============================================================================
