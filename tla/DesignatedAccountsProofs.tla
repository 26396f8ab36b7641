---------------------- MODULE DesignatedAccountsProofs ----------------------
(***************************************************************************)
(* DesignatedAccounts, for any number of submissions, captures, debits and *)
(* workers, whatever the deployment and however the transfers interleave:  *)
(* types, one contribution per key, what a balance adds up to, when it may *)
(* fall, what a certificate is worth, and how often a contribution is      *)
(* transferred.                                                            *)
(***************************************************************************)
EXTENDS DesignatedAccounts, FiniteSetTheorems, TLAPS

(* A transfer under way is for a capture or for a contribution. *)
Moving(h) == pc[h] \in {"write", "record", "audit", "mark"}
InTransfer(h) == pc[h] = "transfer" \/ Moving(h)
HasOrigin ==
  /\ \A c \in Captures : origin[c] = c
  /\ \A w \in Workers : InTransfer(w) => origin[w] \in Submissions

TypeInv == TypeOK /\ HasOrigin

LEMMA OriginType ==
  ASSUME TypeInv, NEW h \in Movers, InTransfer(h)
  PROVE  origin[h] \in Origins /\ Amount(origin[h]) \in Int /\ AccountOf[origin[h]] \in Accounts
BY DesignatedAssumption DEF TypeInv, HasOrigin, Origins, Movers, Amount

LEMMA EndedType ==
  ASSUME TypeInv, NEW h \in Movers, Ended(h)
  PROVE  stray' \in [Origins -> Nat] /\ unmarked' \in [Origins -> Nat]
<1>1. Moving(h) => origin[h] \in Origins
  BY OriginType DEF InTransfer
<1> QED BY <1>1 DEF Ended, Moving, TypeInv, TypeOK

LEMMA InitType == Init => TypeInv
BY DesignatedAssumption
   DEF Init, TypeInv, TypeOK, HasOrigin, InTransfer, Moving, Movers, Actors, Origins,
       Accounts, Stages

(* Steps that only move one actor on and leave the tables alone. *)
LEMMA SubmissionType ==
  ASSUME TypeInv, NEW s \in Submissions, SubmissionStep(s)
  PROVE  TypeInv'
<1> USE DEF records, money, flags, history, transfer, job, tables, local, world
<1>1. s \in Actors /\ s \notin Movers
  BY DesignatedAssumption DEF Actors, Movers, Origins
<1>2. \A h \in Movers : pc'[h] = pc[h] /\ origin'[h] = origin[h]
  BY <1>1 DEF SubmissionStep, FindEntry, CreateEntry, CreateRow, Answer, Goto, TypeInv,
      TypeOK, Actors
<1>3. HasOrigin'
  BY <1>2 DEF TypeInv, HasOrigin, InTransfer, Moving, Movers
<1>4. CASE FindEntry(s) \/ Answer(s)
  BY <1>1, <1>3, <1>4 DEF FindEntry, Answer, Goto, TypeInv, TypeOK, Stages
<1>5. CASE CreateEntry(s)
  BY <1>1, <1>3, <1>5 DEF CreateEntry, Goto, TypeInv, TypeOK, Stages, Keys
<1>6. CASE CreateRow(s)
  BY <1>1, <1>3, <1>6 DEF CreateRow, Goto, TypeInv, TypeOK, Stages
<1> QED BY <1>4, <1>5, <1>6 DEF SubmissionStep

LEMMA TransferType ==
  ASSUME TypeInv, NEW h \in Movers, TransferStep(h)
  PROVE  TypeInv'
<1> USE DEF records, money, flags, history, transfer, job, tables, local, world
<1>1. h \in Actors /\ InTransfer(h)
  BY DEF Actors, TransferStep, ReadBalance, WriteBalance, RecordTransfer, AuditTransfer,
         Goto, InTransfer, Moving
<1>2. origin[h] \in Origins /\ Amount(origin[h]) \in Int /\ AccountOf[origin[h]] \in Accounts
  BY <1>1, OriginType
<1>3. HasOrigin'
  BY <1>1 DEF TransferStep, ReadBalance, WriteBalance, RecordTransfer, AuditTransfer, Goto,
              TypeInv, TypeOK, HasOrigin, InTransfer, Moving, Actors, Movers
<1>4. CASE ReadBalance(h)
  <2>1. raced' \subseteq Accounts
    BY <1>2, <1>4 DEF ReadBalance, TypeInv, TypeOK
  <2> QED BY <1>1, <1>2, <1>3, <1>4, <2>1 DEF ReadBalance, Goto, TypeInv, TypeOK, Stages
<1>5. CASE WriteBalance(h)
  <2>1. current[h] + Amount(origin[h]) \in Int
    BY <1>2 DEF TypeInv, TypeOK
  <2> QED BY <1>1, <1>2, <1>3, <1>5, <2>1 DEF WriteBalance, Goto, TypeInv, TypeOK, Stages
<1>6. CASE RecordTransfer(h)
  <2>1. moved' \in [Origins -> Nat]
    <3>1. moved \in [Origins -> Nat]
      BY DEF TypeInv, TypeOK
    <3>2. moved' = moved \/ moved' = [moved EXCEPT ![origin[h]] = moved[origin[h]] + 1]
      BY <1>6 DEF RecordTransfer
    <3> QED BY <1>2, <3>1, <3>2
  <2>2. stray' \in [Origins -> Nat] /\ unmarked' \in [Origins -> Nat]
    BY <1>6, EndedType DEF RecordTransfer, TypeInv, TypeOK
  <2> QED BY <1>1, <1>3, <1>6, <2>1, <2>2 DEF RecordTransfer, Goto, TypeInv, TypeOK, Stages
<1>7. CASE AuditTransfer(h)
  <2>1. stray' \in [Origins -> Nat] /\ unmarked' \in [Origins -> Nat]
    BY <1>7, EndedType DEF AuditTransfer, TypeInv, TypeOK
  <2> QED BY <1>1, <1>3, <1>7, <2>1 DEF AuditTransfer, Goto, TypeInv, TypeOK, Stages
<1> QED BY <1>4, <1>5, <1>6, <1>7 DEF TransferStep

LEMMA CaptureType ==
  ASSUME TypeInv, NEW c \in Captures, Capture(c)
  PROVE  TypeInv'
<1>1. c \in Actors /\ c \notin Workers
  BY DesignatedAssumption DEF Actors, Movers, Origins
<1> QED BY <1>1 DEF Capture, Goto, TypeInv, TypeOK, HasOrigin, InTransfer, Moving,
                    records, money, flags, history, transfer, job, tables, local, world, Stages

(* The steps of the nightly job outside its transfers. *)
JobStep(w) ==
  \/ StartRun(w) \/ ListPos(w) \/ NextContribution(w) \/ MarkApplied(w)
  \/ StartCoverage(w) \/ CoveredAccount(w) \/ FindShort(w) \/ RaiseAlert(w)
  \/ LockAccount(w) \/ Artefact(w) \/ NextNight(w)

LEMMA JobType ==
  ASSUME TypeInv, NEW w \in Workers, JobStep(w)
  PROVE  TypeInv'
<1> USE DEF records, money, flags, history, transfer, job, tables, local, world
<1>1. w \in Actors /\ w \in Movers /\ w \notin Captures
  BY DesignatedAssumption DEF Actors, Movers, Origins
<1>2. \A a \in Accounts : Pending(a) \subseteq Submissions
  BY DEF Pending, RowSet, TypeInv, TypeOK
<1>3. "PAYGW_BUFFER" \in Accounts /\ "GST_BUFFER" \in Accounts
  BY DEF Accounts
<1>4. CASE StartRun(w)
  BY <1>1, <1>2, <1>3, <1>4 DEF StartRun, Goto, TypeInv, TypeOK, HasOrigin, InTransfer,
      Moving, Stages
<1>5. CASE ListPos(w)
  BY <1>1, <1>2, <1>3, <1>5 DEF ListPos, Goto, TypeInv, TypeOK, HasOrigin, InTransfer,
      Moving, Stages
<1>6. CASE NextContribution(w)
  <2>1. PICK s \in todo[w] : origin' = [origin EXCEPT ![w] = s]
    BY <1>6 DEF NextContribution
  <2>2. s \in Submissions /\ s \in Origins
    BY DEF TypeInv, TypeOK, Origins
  <2>3. origin' \in [Movers -> Origins \cup Workers]
    BY <2>1, <2>2 DEF TypeInv, TypeOK
  <2>4. PICK to \in {"transfer", "failed"} : pc' = [pc EXCEPT ![w] = to]
    BY <1>6 DEF NextContribution, Goto
  <2>5. HasOrigin'
    BY <1>1, <2>1, <2>2, <2>4 DEF TypeInv, TypeOK, HasOrigin, InTransfer, Moving, Movers
  <2>6. pc' \in [Actors -> Stages]
    BY <1>1, <2>4 DEF TypeInv, TypeOK, Stages
  <2> QED BY <1>6, <2>3, <2>5, <2>6 DEF NextContribution, TypeInv, TypeOK
<1>7. CASE MarkApplied(w)
  <2>1. origin[w] \in Submissions
    BY <1>7 DEF MarkApplied, Goto, TypeInv, HasOrigin, InTransfer, Moving
  <2> QED BY <1>1, <1>7, <2>1 DEF MarkApplied, Goto, TypeInv, TypeOK, HasOrigin,
              InTransfer, Moving, Stages
<1>8. CASE StartCoverage(w)
  BY <1>1, <1>3, <1>8 DEF StartCoverage, Goto, TypeInv, TypeOK, HasOrigin, InTransfer,
      Moving, Stages
<1>9. CASE CoveredAccount(w)
  BY <1>1, <1>3, <1>9 DEF CoveredAccount, Goto, TypeInv, TypeOK, HasOrigin, InTransfer,
      Moving, Stages
<1>10. CASE FindShort(w)
  BY <1>1, <1>10 DEF FindShort, Goto, TypeInv, TypeOK, HasOrigin, InTransfer, Moving, Stages
<1>11. CASE RaiseAlert(w)
  <2>1. alerts' \subseteq Accounts /\ pc' = [pc EXCEPT ![w] = "alerted"]
    BY <1>11 DEF RaiseAlert, Goto, TypeInv, TypeOK
  <2> QED BY <1>1, <1>11, <2>1 DEF RaiseAlert, TypeInv, TypeOK, HasOrigin, InTransfer,
      Moving, Stages
<1>12. CASE LockAccount(w)
  BY <1>1, <1>12 DEF LockAccount, Goto, TypeInv, TypeOK, HasOrigin, InTransfer, Moving,
      Stages
<1>13. CASE Artefact(w)
  BY <1>1, <1>13 DEF Artefact, Goto, TypeInv, TypeOK, HasOrigin, InTransfer, Moving, Stages
<1>14. CASE NextNight(w)
  BY <1>1, <1>14 DEF NextNight, TypeInv, TypeOK, HasOrigin, InTransfer, Moving, Stages
<1> QED BY <1>4, <1>5, <1>6, <1>7, <1>8, <1>9, <1>10, <1>11, <1>12, <1>13, <1>14 DEF JobStep

LEMMA CrashType ==
  ASSUME TypeInv, NEW h \in Actors, Crash(h)
  PROVE  TypeInv'
<1>1. crashes' \in 0..MaxCrashes
  BY DesignatedAssumption DEF Crash, TypeInv, TypeOK
<1>2. stray' \in [Origins -> Nat] /\ unmarked' \in [Origins -> Nat]
  BY EndedType DEF Crash, TypeInv, TypeOK
<1> QED BY <1>1, <1>2 DEF Crash, TypeInv, TypeOK, HasOrigin, InTransfer, Moving, records,
            money, flags, transfer, job, local, Stages

(* The cases of a step, by actor. *)
LEMMA NextCases ==
  ASSUME [Next]_vars
  PROVE  \/ \E s \in Submissions : SubmissionStep(s)
         \/ \E c \in Captures : Capture(c)
         \/ \E h \in Movers : TransferStep(h)
         \/ \E w \in Workers : JobStep(w)
         \/ \E h \in Actors : Crash(h)
         \/ UNCHANGED vars
BY DEF Next, CaptureStep, WorkerStep, JobStep, Movers

LEMMA TypeStep == TypeInv /\ [Next]_vars => TypeInv'
<1> SUFFICES ASSUME TypeInv, [Next]_vars PROVE TypeInv'
  OBVIOUS
<1>1. CASE UNCHANGED vars
  BY <1>1 DEF vars, records, money, flags, history, transfer, job, tables, local, world,
     TypeInv, TypeOK, HasOrigin, InTransfer, Moving
<1> QED BY <1>1, NextCases, SubmissionType, CaptureType, TransferType, JobType, CrashType

LEMMA TypeInvariance == Spec => []TypeInv
BY InitType, TypeStep, PTL DEF Spec

(* The tables, and what the calls and the nightly job hold, keep their     *)
(* types in every execution.                                               *)
THEOREM TypeCorrect == Spec => []TypeOK
<1>1. TypeInv => TypeOK
  BY DEF TypeInv
<1> QED BY <1>1, TypeInvariance, PTL
-----------------------------------------------------------------------------
(* A key's entry is older than its row, and one call at most is between    *)
(* the two.                                                                *)
Owned ==
  /\ \A s \in RowSet : KeyOf[s] \in entries
  /\ \A s \in Submissions : pc[s] = "entered" =>
       /\ KeyOf[s] \in entries
       /\ \A r \in RowSet : KeyOf[r] # KeyOf[s]
       /\ \A q \in Submissions : pc[q] = "entered" /\ KeyOf[q] = KeyOf[s] => q = s
  /\ \A s \in Submissions : pc[s] \in {"recorded", "ok"} => s \in RowSet

KeyInv == TypeInv /\ Owned /\ OneRowPerKey

(* Workers and captures touch neither entries nor rows nor submissions. *)
LEMMA MoverFrame ==
  ASSUME TypeInv,
         \/ \E c \in Captures : Capture(c)
         \/ \E h \in Movers : TransferStep(h)
         \/ \E w \in Workers : JobStep(w)
  PROVE  entries' = entries /\ rows' = rows /\ \A s \in Submissions : pc'[s] = pc[s]
<1>1. \A s \in Submissions : s \in Actors /\ s \notin Movers
  BY DesignatedAssumption DEF Actors, Movers, Origins
<1>2. \A c \in Captures : c \in Movers
  BY DEF Movers
<1>3. \A w \in Workers : w \in Movers
  BY DEF Movers
<1>4. ASSUME NEW c \in Captures, Capture(c)
      PROVE  entries' = entries /\ rows' = rows /\ \A s \in Submissions : pc'[s] = pc[s]
  BY <1>1, <1>2, <1>4 DEF Capture, Goto, records, tables, TypeInv, TypeOK
<1>5. ASSUME NEW h \in Movers, TransferStep(h)
      PROVE  entries' = entries /\ rows' = rows /\ \A s \in Submissions : pc'[s] = pc[s]
  BY <1>1, <1>5 DEF TransferStep, ReadBalance, WriteBalance, RecordTransfer, AuditTransfer,
                    Goto, records, tables, TypeInv, TypeOK
<1>6. ASSUME NEW w \in Workers, JobStep(w)
      PROVE  entries' = entries /\ rows' = rows /\ \A s \in Submissions : pc'[s] = pc[s]
  <2>1. \A s \in Submissions : s # w
    BY <1>1, <1>3
  <2>2. entries' = entries /\ rows' = rows
    BY <1>6 DEF JobStep, StartRun, ListPos, NextContribution, MarkApplied, StartCoverage,
                CoveredAccount, FindShort, RaiseAlert, LockAccount, Artefact, NextNight, records, tables
  <2>3. \E to \in Stages : pc' = [pc EXCEPT ![w] = to]
    BY <1>6 DEF JobStep, StartRun, ListPos, NextContribution, MarkApplied, StartCoverage,
                CoveredAccount, FindShort, RaiseAlert, LockAccount, Artefact, NextNight, Goto, Stages
  <2> QED BY <1>1, <2>1, <2>2, <2>3 DEF TypeInv, TypeOK
<1> QED BY <1>4, <1>5, <1>6

LEMMA CreateRowKey ==
  ASSUME KeyInv, NEW s \in Submissions, CreateRow(s)
  PROVE  Owned' /\ OneRowPerKey'
<1>1. rows \in Seq(Submissions) /\ rows' = Append(rows, s) /\ entries' = entries
  BY DEF CreateRow, KeyInv, TypeInv, TypeOK
<1>2. /\ DOMAIN rows = 1..Len(rows) /\ Len(rows) \in Nat
      /\ DOMAIN rows' = 1..(Len(rows) + 1)
      /\ \A i \in 1..Len(rows) : rows'[i] = rows[i]
      /\ rows'[Len(rows) + 1] = s
  BY <1>1
<1>3. RowSet' = RowSet \cup {s}
  <2>1. \A r \in RowSet' : r \in RowSet \cup {s}
    BY <1>2 DEF RowSet
  <2>2. \A r \in RowSet : r \in RowSet'
    BY <1>2 DEF RowSet
  <2>3. s \in RowSet'
    BY <1>2 DEF RowSet
  <2> QED BY <2>1, <2>2, <2>3
<1>4. /\ pc[s] = "entered" /\ pc'[s] = "recorded"
      /\ \A q \in Submissions : q # s => pc'[q] = pc[q]
  BY DEF CreateRow, Goto, KeyInv, TypeInv, TypeOK, Actors
<1>5. KeyOf[s] \in entries /\ \A r \in RowSet : KeyOf[r] # KeyOf[s]
  BY <1>4 DEF KeyInv, Owned
<1>6. Owned'
  <2>1. \A r \in RowSet' : KeyOf[r] \in entries'
    BY <1>1, <1>3, <1>5 DEF KeyInv, Owned
  <2>2. ASSUME NEW q \in Submissions, pc'[q] = "entered"
        PROVE  /\ KeyOf[q] \in entries'
               /\ \A r \in RowSet' : KeyOf[r] # KeyOf[q]
               /\ \A p \in Submissions : pc'[p] = "entered" /\ KeyOf[p] = KeyOf[q] => p = q
    <3>1. q # s /\ pc[q] = "entered" /\ KeyOf[q] # KeyOf[s]
      BY <1>4, <2>2 DEF KeyInv, Owned
    <3>2. /\ KeyOf[q] \in entries /\ \A r \in RowSet : KeyOf[r] # KeyOf[q]
          /\ \A p \in Submissions : pc[p] = "entered" /\ KeyOf[p] = KeyOf[q] => p = q
      BY <3>1 DEF KeyInv, Owned
    <3> QED BY <1>1, <1>3, <1>4, <3>1, <3>2
  <2>3. \A q \in Submissions : pc'[q] \in {"recorded", "ok"} => q \in RowSet'
    BY <1>3, <1>4 DEF KeyInv, Owned
  <2> QED BY <2>1, <2>2, <2>3 DEF Owned
<1>7. OneRowPerKey'
  <2>1. \A i, j \in DOMAIN rows : KeyOf[rows[i]] = KeyOf[rows[j]] => i = j
    BY DEF KeyInv, OneRowPerKey
  <2>2. \A i \in DOMAIN rows : KeyOf[rows[i]] # KeyOf[s]
    BY <1>5 DEF RowSet
  <2>3. \A i, j \in DOMAIN rows' : KeyOf[rows'[i]] = KeyOf[rows'[j]] => i = j
    BY <1>2, <2>1, <2>2
  <2>4. \A q \in Submissions : pc'[q] = "ok" => q \in RowSet'
    BY <1>6 DEF Owned
  <2> QED BY <2>3, <2>4 DEF OneRowPerKey
<1> QED BY <1>6, <1>7

(* Steps that leave the rows alone, and in which no call enters. *)
LEMMA KeptKey ==
  ASSUME KeyInv, entries' = entries, rows' = rows,
         \A s \in Submissions : pc'[s] \in {"entered", "recorded", "ok"} =>
           pc'[s] = pc[s] \/ (pc[s] = "recorded" /\ pc'[s] = "ok")
  PROVE  Owned' /\ OneRowPerKey'
<1>1. RowSet' = RowSet
  BY DEF RowSet
<1>2. \A s \in Submissions :
        /\ pc'[s] = "entered" => pc[s] = "entered"
        /\ pc'[s] \in {"recorded", "ok"} => pc[s] \in {"recorded", "ok"}
  OBVIOUS
<1>3. Owned'
  BY <1>1, <1>2 DEF KeyInv, Owned
<1> QED BY <1>1, <1>3 DEF KeyInv, Owned, OneRowPerKey

LEMMA KeyStep == KeyInv /\ [Next]_vars => Owned' /\ OneRowPerKey'
<1> SUFFICES ASSUME KeyInv, [Next]_vars PROVE Owned' /\ OneRowPerKey'
  OBVIOUS
<1>1. CASE \/ \E c \in Captures : Capture(c)
           \/ \E h \in Movers : TransferStep(h)
           \/ \E w \in Workers : JobStep(w)
  BY <1>1, MoverFrame, KeptKey DEF KeyInv
<1>2. CASE \E h \in Actors : Crash(h)
  BY <1>2, KeptKey DEF Crash, records, KeyInv, TypeInv, TypeOK, Actors
<1>3. CASE UNCHANGED vars
  BY <1>3, KeptKey DEF vars, records, tables
<1>4. ASSUME NEW s \in Submissions, FindEntry(s) \/ Answer(s) PROVE Owned' /\ OneRowPerKey'
  BY <1>4, KeptKey DEF FindEntry, Answer, Goto, records, tables, KeyInv, TypeInv, TypeOK, Actors
<1>5. ASSUME NEW s \in Submissions, CreateEntry(s) PROVE Owned' /\ OneRowPerKey'
  <2>1. /\ pc[s] = "fresh" /\ rows' = rows /\ entries' = entries \cup {KeyOf[s]}
        /\ pc'[s] = IF Known(s) THEN "failed" ELSE "entered"
        /\ \A q \in Submissions : q # s => pc'[q] = pc[q]
    BY <1>5 DEF CreateEntry, Goto, KeyInv, TypeInv, TypeOK, Actors
  <2>2. RowSet' = RowSet
    BY <2>1 DEF RowSet
  <2>3. CASE Known(s)
    <3>1. entries' = entries
      BY <2>1, <2>3 DEF Known
    <3> QED BY <2>1, <2>3, <3>1, KeptKey
  <2>4. CASE ~Known(s)
    <3>1. /\ \A r \in RowSet : KeyOf[r] # KeyOf[s]
          /\ \A q \in Submissions : pc[q] = "entered" => KeyOf[q] # KeyOf[s]
      BY <2>4 DEF Known, KeyInv, Owned
    <3>2. pc'[s] = "entered"
      BY <2>1, <2>4
    <3>3. Owned'
      BY <2>1, <2>2, <3>1, <3>2 DEF KeyInv, Owned
    <3> QED BY <2>1, <2>2, <3>2, <3>3 DEF KeyInv, OneRowPerKey, Owned
  <2> QED BY <2>3, <2>4
<1>6. ASSUME NEW s \in Submissions, CreateRow(s) PROVE Owned' /\ OneRowPerKey'
  BY <1>6, CreateRowKey
<1> QED BY <1>1, <1>2, <1>3, <1>4, <1>5, <1>6, NextCases DEF SubmissionStep

(* However submissions interleave, are retried or die, there is one        *)
(* contribution per key, and an answered submission has its row.           *)
THEOREM OneRowPerKeyAlways == Spec => []OneRowPerKey
<1>1. Init => Owned /\ OneRowPerKey
  <2> SUFFICES ASSUME Init PROVE Owned /\ OneRowPerKey
    OBVIOUS
  <2>1. DOMAIN rows = {} /\ \A s \in Submissions : pc[s] = "idle"
    BY DEF Init, Actors
  <2> QED BY <2>1 DEF Owned, OneRowPerKey, RowSet
<1>2. TypeInv /\ Owned /\ OneRowPerKey /\ [Next]_vars => Owned' /\ OneRowPerKey'
  BY KeyStep DEF KeyInv
<1> QED BY <1>1, <1>2, TypeInvariance, PTL DEF Spec
-----------------------------------------------------------------------------
(* The steps that the money and its history can tell apart: the rest leave *)
(* every transfer under way where it is.                                   *)
Quiet ==
  /\ UNCHANGED <<appliedBy, balance, moved, raced, stray, unmarked, crashes, deployment>>
  /\ \A h \in Movers :
       \/ pc'[h] = pc[h] /\ origin'[h] = origin[h] /\ current'[h] = current[h]
       \/ ~Moving(h) /\ ~Moving(h)'

LEMMA QuietJob ==
  ASSUME TypeInv, NEW w \in Workers, JobStep(w), ~MarkApplied(w)
  PROVE  Quiet
<1>1. /\ w \in Movers /\ w \in Actors /\ pc \in [Actors -> Stages] /\ Movers \subseteq Actors
      /\ origin \in [Movers -> Origins \cup Workers] /\ current \in [Movers -> Int]
  BY DEF TypeInv, TypeOK, Movers, Actors
<1>2. UNCHANGED <<appliedBy, balance, moved, raced, stray, unmarked, crashes, deployment>>
  BY DEF JobStep, StartRun, ListPos, NextContribution, StartCoverage, CoveredAccount,
     FindShort, RaiseAlert, LockAccount, Artefact, NextNight, records, money, history,
     tables, world
<1>3. ~Moving(w)
  BY DEF JobStep, StartRun, ListPos, NextContribution, StartCoverage, CoveredAccount,
     FindShort, RaiseAlert, LockAccount, Artefact, NextNight, Goto, Moving
<1>4. \E to \in Stages \ {"write", "record", "audit", "mark"} : pc' = [pc EXCEPT ![w] = to]
  BY DEF JobStep, StartRun, ListPos, NextContribution, StartCoverage, CoveredAccount,
     FindShort, RaiseAlert, LockAccount, Artefact, NextNight, Goto, Stages
<1>5. \A h \in Movers : h # w => origin'[h] = origin[h] /\ current'[h] = current[h]
  <2>1. CASE NextContribution(w)
    BY <1>1, <2>1 DEF NextContribution
  <2>2. CASE NextNight(w)
    BY <1>1, <2>2 DEF NextNight
  <2>3. CASE ~NextContribution(w) /\ ~NextNight(w)
    <3>1. origin' = origin /\ current' = current
      BY <2>3 DEF JobStep, StartRun, ListPos, StartCoverage, CoveredAccount, FindShort,
         RaiseAlert, LockAccount, Artefact, transfer, local
    <3> QED BY <3>1
  <2> QED BY <2>1, <2>2, <2>3
<1>6. \A h \in Movers : h # w => pc'[h] = pc[h]
  BY <1>1, <1>4
<1>7. ~Moving(w)'
  BY <1>1, <1>4 DEF Moving
<1> QED BY <1>2, <1>3, <1>5, <1>6, <1>7 DEF Quiet

LEMMA StepKinds ==
  ASSUME TypeInv, [Next]_vars
  PROVE  \/ \E h \in Movers : TransferStep(h)
         \/ \E w \in Workers : MarkApplied(w)
         \/ \E h \in Movers : Crash(h)
         \/ Quiet
<1>1. /\ pc \in [Actors -> Stages] /\ Movers \subseteq Actors
      /\ \A s \in Submissions : s \notin Movers
      /\ Captures \subseteq Movers
  BY DesignatedAssumption DEF TypeInv, TypeOK, Movers, Actors, Origins
<1>2. ASSUME NEW s \in Submissions, SubmissionStep(s) PROVE Quiet
  BY <1>1, <1>2 DEF SubmissionStep, FindEntry, CreateEntry, CreateRow, Answer, Goto, Quiet,
     records, money, history, transfer, tables, local, world
<1>3. ASSUME NEW c \in Captures, Capture(c) PROVE Quiet
  <2>1. /\ UNCHANGED <<tables, local, world>> /\ pc[c] = "idle" /\ ~Moving(c)'
        /\ \A h \in Movers : h # c => pc'[h] = pc[h]
    BY <1>1, <1>3 DEF Capture, Goto, Moving
  <2> QED BY <2>1 DEF Quiet, Moving, records, money, history, transfer, tables, local, world
<1>4. ASSUME NEW s \in Submissions, Crash(s) PROVE Quiet
  BY <1>1, <1>4 DEF Crash, Quiet, records, money, transfer, local
<1>5. CASE UNCHANGED vars
  BY <1>5 DEF vars, Quiet, records, money, history, transfer, tables, local, world
<1> QED BY <1>2, <1>3, <1>4, <1>5, QuietJob, NextCases DEF Actors

(* What a step of one transfer leaves alone. *)
LEMMA TransferFrame ==
  ASSUME TypeInv, NEW h \in Movers, TransferStep(h) \/ Crash(h)
  PROVE  /\ origin' = origin /\ todo' = todo /\ appliedBy' = appliedBy /\ rows' = rows
         /\ deployment' = deployment /\ certified' = certified /\ checking' = checking
         /\ \A g \in Movers : g # h => pc'[g] = pc[g] /\ current'[g] = current[g]
<1>1. /\ h \in Actors /\ pc \in [Actors -> Stages] /\ Movers \subseteq Actors
      /\ current \in [Movers -> Int]
  BY DEF TypeInv, TypeOK, Movers, Actors
<1>2. /\ origin' = origin /\ todo' = todo /\ appliedBy' = appliedBy /\ rows' = rows
      /\ deployment' = deployment /\ certified' = certified /\ checking' = checking
  BY DEF TransferStep, ReadBalance, WriteBalance, RecordTransfer, AuditTransfer, Crash,
     records, transfer, job, local, world
<1>3. \E to \in Stages : pc' = [pc EXCEPT ![h] = to]
  BY DEF TransferStep, ReadBalance, WriteBalance, RecordTransfer, AuditTransfer, Crash,
     Goto, Stages
<1>4. current' = current \/ \E n : current' = [current EXCEPT ![h] = n]
  BY DEF TransferStep, ReadBalance, WriteBalance, RecordTransfer, AuditTransfer, Crash,
     transfer, local
<1>5. \A g \in Movers : g # h => pc'[g] = pc[g] /\ current'[g] = current[g]
  BY <1>1, <1>3, <1>4
<1> QED BY <1>2, <1>5
-----------------------------------------------------------------------------
(* On an account on which no transfers have overlapped, one at most is     *)
(* between its read and its write, and what it has read is still so.       *)
Alone ==
  \A a \in Accounts \ raced : \A g, h \in Movers : Writing(g, a) /\ Writing(h, a) => g = h
ReadIsCurrent ==
  \A a \in Accounts \ raced : \A h \in Movers : Writing(h, a) => current[h] = balance[a]

RaceInv == TypeInv /\ Alone /\ ReadIsCurrent

(* Steps in which nobody starts to write and no balance changes. *)
LEMMA RaceKept ==
  ASSUME RaceInv, raced' = raced, balance' = balance,
         \A h \in Movers : pc'[h] = "write" =>
           pc[h] = "write" /\ origin'[h] = origin[h] /\ current'[h] = current[h]
  PROVE  Alone' /\ ReadIsCurrent'
BY DEF RaceInv, Alone, ReadIsCurrent, Writing

LEMMA RaceStep == RaceInv /\ [Next]_vars => Alone' /\ ReadIsCurrent'
<1> SUFFICES ASSUME RaceInv, [Next]_vars PROVE Alone' /\ ReadIsCurrent'
  OBVIOUS
<1>0. /\ pc \in [Actors -> Stages] /\ Movers \subseteq Actors /\ TypeInv
      /\ current \in [Movers -> Int] /\ balance \in [Accounts -> Int]
  BY DEF RaceInv, TypeInv, TypeOK, Actors
<1>1. CASE Quiet
  BY <1>1, RaceKept DEF Quiet, Moving
<1>2. ASSUME NEW h \in Movers, ReadBalance(h) PROVE Alone' /\ ReadIsCurrent'
  <2> DEFINE a == AccountOf[origin[h]]
  <2>1. /\ pc[h] = "transfer" /\ pc'[h] = "write" /\ current'[h] = balance[a]
        /\ balance' = balance /\ origin' = origin
        /\ \A g \in Movers : g # h => pc'[g] = pc[g] /\ current'[g] = current[g]
        /\ raced' = IF \E g \in Movers \ {h} : Writing(g, a) THEN raced \cup {a} ELSE raced
    <3>1. TransferStep(h)
      BY <1>2 DEF TransferStep
    <3>2. current'[h] = balance[a] /\ pc[h] = "transfer" /\ pc'[h] = "write"
      BY <1>0, <1>2 DEF ReadBalance, Goto
    <3> QED BY <1>0, <1>2, <3>1, <3>2, TransferFrame DEF ReadBalance, money
  <2> HIDE DEF a
  <2>2. \A g \in Movers, b \in Accounts :
          Writing(g, b)' => (g = h /\ b = a) \/ (g # h /\ Writing(g, b))
    BY <2>1 DEF Writing, a
  <2>3. \A b \in Accounts \ raced' :
          b \in Accounts \ raced /\ (b = a => \A g \in Movers : g # h => ~Writing(g, b))
    BY <2>1
  <2>4. Alone'
    BY <2>2, <2>3 DEF RaceInv, Alone
  <2>5. ReadIsCurrent'
    BY <2>1, <2>2, <2>3 DEF RaceInv, ReadIsCurrent
  <2> QED BY <2>4, <2>5
<1>3. ASSUME NEW h \in Movers, WriteBalance(h) PROVE Alone' /\ ReadIsCurrent'
  <2> DEFINE a == AccountOf[origin[h]]
  <2>1. /\ pc[h] = "write" /\ pc'[h] = "record" /\ raced' = raced /\ origin' = origin
        /\ \A g \in Movers : g # h => pc'[g] = pc[g] /\ current'[g] = current[g]
        /\ \A b \in Accounts : b # a => balance'[b] = balance[b]
    <3>1. TransferStep(h)
      BY <1>3 DEF TransferStep
    <3> QED BY <1>0, <1>3, <3>1, TransferFrame DEF WriteBalance, Goto, history
  <2> HIDE DEF a
  <2>2. \A g \in Movers, b \in Accounts : Writing(g, b)' => g # h /\ Writing(g, b)
    BY <2>1 DEF Writing
  <2>3. Writing(h, a)
    BY <2>1 DEF Writing, a
  <2>4. Alone'
    BY <2>1, <2>2 DEF RaceInv, Alone
  <2>5. ReadIsCurrent'
    <3> SUFFICES ASSUME NEW b \in Accounts \ raced', NEW g \in Movers, Writing(g, b)'
                 PROVE  current'[g] = balance'[b]
      BY DEF ReadIsCurrent
    <3>1. g # h /\ Writing(g, b) /\ b \in Accounts \ raced
      BY <2>1, <2>2
    <3>2. b # a
      BY <2>3, <3>1 DEF RaceInv, Alone
    <3> QED BY <2>1, <3>1, <3>2 DEF RaceInv, ReadIsCurrent
  <2> QED BY <2>4, <2>5
<1>4. ASSUME NEW h \in Movers, RecordTransfer(h) \/ AuditTransfer(h) \/ Crash(h)
      PROVE  Alone' /\ ReadIsCurrent'
  <2>1. raced' = raced /\ balance' = balance /\ pc'[h] # "write"
    BY <1>0, <1>4 DEF RecordTransfer, AuditTransfer, Crash, Goto, money
  <2>2. /\ origin' = origin
        /\ \A g \in Movers : g # h => pc'[g] = pc[g] /\ current'[g] = current[g]
    BY <1>0, <1>4, TransferFrame DEF TransferStep
  <2> QED BY <2>1, <2>2, RaceKept
<1>5. ASSUME NEW w \in Workers, MarkApplied(w) PROVE Alone' /\ ReadIsCurrent'
  <2>1. /\ raced' = raced /\ balance' = balance /\ UNCHANGED <<origin, current>>
        /\ \A h \in Movers : pc'[h] = "write" => pc[h] = "write"
    BY <1>0, <1>5 DEF MarkApplied, Goto, money, history, transfer, Movers
  <2> QED BY <2>1, RaceKept
<1> QED BY <1>0, <1>1, <1>2, <1>3, <1>4, <1>5, StepKinds DEF TransferStep

LEMMA RaceInvariance == Spec => []RaceInv
<1>1. Init => Alone /\ ReadIsCurrent
  BY DEF Init, Alone, ReadIsCurrent, Writing, Actors
<1>2. TypeInv /\ Alone /\ ReadIsCurrent /\ [Next]_vars => (Alone /\ ReadIsCurrent)'
  BY RaceStep DEF RaceInv
<1>3. TypeInv /\ Alone /\ ReadIsCurrent => RaceInv
  BY DEF RaceInv
<1> QED BY <1>1, <1>2, <1>3, TypeInvariance, PTL DEF Spec
-----------------------------------------------------------------------------
(* A transfer counts as written from its write on, whatever becomes of it. *)
InFlight(o) == {h \in Movers : pc[h] = "record" /\ origin[h] = o}

LEMMA InFlightFinite ==
  /\ \A o : IsFiniteSet(InFlight(o)) /\ Cardinality(InFlight(o)) \in Nat
  /\ \A o : IsFiniteSet(InFlight(o)') /\ Cardinality(InFlight(o)') \in Nat
<1>1. IsFiniteSet(Movers)
  BY DesignatedAssumption, FS_Union DEF Movers
<1>2. \A o : InFlight(o) \in SUBSET Movers /\ InFlight(o)' \in SUBSET Movers
  BY DEF InFlight
<1> QED BY <1>1, <1>2, FS_Subset, FS_CardinalityType

LEMMA WrittenType == TypeInv => \A o \in Origins : Written(o) \in Nat
<1> SUFFICES ASSUME TypeInv, NEW o \in Origins PROVE Written(o) \in Nat
  OBVIOUS
<1>1. Written(o) = moved[o] + stray[o] + Cardinality(InFlight(o))
  BY DEF Written, InFlight
<1>2. moved[o] \in Nat /\ stray[o] \in Nat
  BY DEF TypeInv, TypeOK
<1>3. Cardinality(InFlight(o)) \in Nat
  BY InFlightFinite
<1> QED BY <1>1, <1>2, <1>3

LEMMA AddOne ==
  ASSUME NEW S, IsFiniteSet(S), NEW x, x \notin S
  PROVE  /\ IsFiniteSet(S \cup {x}) /\ Cardinality(S) \in Nat
         /\ Cardinality(S \cup {x}) = Cardinality(S) + 1
BY FS_AddElement, FS_CardinalityType

LEMMA TakeOne ==
  ASSUME NEW S, IsFiniteSet(S), NEW x \in S
  PROVE  /\ IsFiniteSet(S \ {x}) /\ Cardinality(S) \in Nat
         /\ Cardinality(S \ {x}) = Cardinality(S) - 1
BY FS_RemoveElement, FS_CardinalityType

WrittenKept == \A o \in Origins : Written(o)' = Written(o)
WrittenBy(h) ==
  \A o \in Origins : Written(o)' = IF o = origin[h] THEN Written(o) + 1 ELSE Written(o)

(* Steps in which nobody enters or leaves the gap between the two writes.  *)
LEMMA WrittenSame ==
  ASSUME moved' = moved, stray' = stray,
         \A h \in Movers : pc'[h] = "record" \/ pc[h] = "record" =>
           pc'[h] = pc[h] /\ origin'[h] = origin[h]
  PROVE  WrittenKept
<1>1. \A o \in Origins : InFlight(o)' = InFlight(o)
  BY DEF InFlight
<1> QED BY <1>1 DEF WrittenKept, Written, InFlight

(* One leaves it: its transfer row is there, or it has ended half way.     *)
LEMMA WrittenLeave ==
  ASSUME TypeInv, NEW h \in Movers, pc[h] = "record", pc'[h] # "record", origin' = origin,
         \A g \in Movers : g # h => pc'[g] = pc[g],
         \/ moved' = [moved EXCEPT ![origin[h]] = moved[origin[h]] + 1] /\ stray' = stray
         \/ stray' = [stray EXCEPT ![origin[h]] = stray[origin[h]] + 1] /\ moved' = moved
  PROVE  WrittenKept
<1>1. origin[h] \in Origins /\ moved \in [Origins -> Nat] /\ stray \in [Origins -> Nat]
  BY OriginType DEF TypeInv, TypeOK, InTransfer, Moving
<1>2. \A o : InFlight(o)' = IF o = origin[h] THEN InFlight(o) \ {h} ELSE InFlight(o)
  BY DEF InFlight
<1>3. h \in InFlight(origin[h])
  BY DEF InFlight
<1>4. Cardinality(InFlight(origin[h]) \ {h}) = Cardinality(InFlight(origin[h])) - 1
  BY <1>3, InFlightFinite, TakeOne
<1>5. \A o \in Origins : moved'[o] + stray'[o] =
        IF o = origin[h] THEN moved[o] + stray[o] + 1 ELSE moved[o] + stray[o]
  BY <1>1
<1>6. ASSUME NEW o \in Origins PROVE Written(o)' = Written(o)
  <2>1. Written(o) = moved[o] + stray[o] + Cardinality(InFlight(o))
    BY DEF Written, InFlight
  <2>2. Written(o)' = moved'[o] + stray'[o] + Cardinality(InFlight(o)')
    BY DEF Written, InFlight
  <2>3. Cardinality(InFlight(o)) \in Nat /\ moved[o] \in Nat /\ stray[o] \in Nat
    BY <1>1, InFlightFinite
  <2> QED BY <1>2, <1>4, <1>5, <2>1, <2>2, <2>3
<1> QED BY <1>6 DEF WrittenKept

LEMMA WrittenEnter ==
  ASSUME TypeInv, NEW h \in Movers, WriteBalance(h)
  PROVE  WrittenBy(h)
<1>1. /\ pc[h] = "write" /\ pc'[h] = "record" /\ UNCHANGED <<moved, stray, origin>>
      /\ \A g \in Movers : g # h => pc'[g] = pc[g]
  <2>1. TransferStep(h)
    BY DEF TransferStep
  <2> QED BY <2>1, TransferFrame
          DEF WriteBalance, Goto, history, transfer, local, TypeInv, TypeOK, Actors
<1>2. \A o : InFlight(o)' = IF o = origin[h] THEN InFlight(o) \cup {h} ELSE InFlight(o)
  BY <1>1 DEF InFlight
<1>3. h \notin InFlight(origin[h])
  BY <1>1 DEF InFlight
<1>4. Cardinality(InFlight(origin[h]) \cup {h}) = Cardinality(InFlight(origin[h])) + 1
  BY <1>3, InFlightFinite, AddOne
<1>5. ASSUME NEW o \in Origins
      PROVE  Written(o)' = IF o = origin[h] THEN Written(o) + 1 ELSE Written(o)
  <2>1. Written(o) = moved[o] + stray[o] + Cardinality(InFlight(o))
    BY DEF Written, InFlight
  <2>2. Written(o)' = moved[o] + stray[o] + Cardinality(InFlight(o)')
    BY <1>1 DEF Written, InFlight
  <2>3. Cardinality(InFlight(o)) \in Nat
    BY InFlightFinite
  <2>4. moved[o] \in Nat /\ stray[o] \in Nat
    BY DEF TypeInv, TypeOK
  <2>5. Cardinality(InFlight(o)') =
          IF o = origin[h] THEN Cardinality(InFlight(o)) + 1 ELSE Cardinality(InFlight(o))
    BY <1>2, <1>4
  <2> QED BY <2>1, <2>2, <2>3, <2>4, <2>5
<1> QED BY <1>5 DEF WrittenBy

LEMMA WrittenStep ==
  ASSUME TypeInv, [Next]_vars
  PROVE  \/ balance' = balance /\ WrittenKept
         \/ \E h \in Movers : WriteBalance(h) /\ WrittenBy(h)
<1>0. /\ pc \in [Actors -> Stages] /\ Movers \subseteq Actors /\ Workers \subseteq Movers
      /\ origin \in [Movers -> Origins \cup Workers]
  BY DEF TypeInv, TypeOK, Movers, Actors
<1>1. CASE Quiet
  BY <1>1, WrittenSame DEF Quiet, Moving
<1>2. ASSUME NEW h \in Movers, ReadBalance(h) \/ AuditTransfer(h) PROVE balance' = balance /\ WrittenKept
  <2>1. /\ pc[h] # "record" /\ pc'[h] # "record" /\ UNCHANGED <<balance, moved, stray, origin>>
        /\ \A g \in Movers : g # h => pc'[g] = pc[g]
    <3>1. pc[h] # "record" /\ pc'[h] # "record" /\ UNCHANGED <<balance, moved, stray>>
      BY <1>0, <1>2 DEF ReadBalance, AuditTransfer, Ended, Goto, money
    <3> QED BY <1>2, <3>1, TransferFrame DEF TransferStep
  <2> QED BY <2>1, WrittenSame
<1>3. ASSUME NEW h \in Movers, RecordTransfer(h) PROVE balance' = balance /\ WrittenKept
  <2>1. /\ pc[h] = "record" /\ pc'[h] # "record" /\ balance' = balance
        /\ \/ moved' = [moved EXCEPT ![origin[h]] = moved[origin[h]] + 1] /\ stray' = stray
           \/ stray' = [stray EXCEPT ![origin[h]] = stray[origin[h]] + 1] /\ moved' = moved
    BY <1>0, <1>3 DEF RecordTransfer, Ended, Goto
  <2>2. origin' = origin /\ \A g \in Movers : g # h => pc'[g] = pc[g]
    BY <1>3, TransferFrame DEF TransferStep
  <2> QED BY <2>1, <2>2, WrittenLeave
<1>4. ASSUME NEW h \in Movers, Crash(h) PROVE balance' = balance /\ WrittenKept
  <2>1. h \notin Submissions /\ h \in Actors
    BY DesignatedAssumption DEF Movers, Origins, Actors
  <2>2. /\ balance' = balance /\ moved' = moved /\ pc'[h] = "failed" /\ Ended(h)
        /\ origin' = origin /\ \A g \in Movers : g # h => pc'[g] = pc[g]
    BY <1>0, <1>4, <2>1, TransferFrame DEF Crash, money
  <2>3. CASE pc[h] = "record"
    <3>1. stray' = [stray EXCEPT ![origin[h]] = stray[origin[h]] + 1]
      BY <2>2, <2>3 DEF Ended
    <3> QED BY <2>2, <2>3, <3>1, WrittenLeave
  <2>4. CASE pc[h] # "record"
    BY <2>2, <2>4, WrittenSame DEF Ended
  <2> QED BY <2>3, <2>4
<1>5. ASSUME NEW w \in Workers, MarkApplied(w) PROVE balance' = balance /\ WrittenKept
  <2>1. /\ UNCHANGED <<balance, moved, stray, origin>>
        /\ \A h \in Movers : (pc'[h] = "record" \/ pc[h] = "record") => pc'[h] = pc[h]
    BY <1>0, <1>5 DEF MarkApplied, Goto, money, history, transfer
  <2> QED BY <2>1, WrittenSame
<1>6. ASSUME NEW h \in Movers, WriteBalance(h) PROVE WrittenBy(h)
  BY <1>6, WrittenEnter
<1> QED BY <1>1, <1>2, <1>3, <1>4, <1>5, <1>6, StepKinds DEF TransferStep
-----------------------------------------------------------------------------
(* What a write does to its account, where no transfers have overlapped.   *)
LEMMA WriteAdds ==
  ASSUME RaceInv, NEW h \in Movers, WriteBalance(h)
  PROVE  /\ origin[h] \in Origins /\ AccountOf[origin[h]] \in Accounts
         /\ Amount(origin[h]) \in Int /\ raced' = raced
         /\ \A a \in Accounts :
              balance'[a] = IF a = AccountOf[origin[h]]
                            THEN current[h] + Amount(origin[h]) ELSE balance[a]
         /\ AccountOf[origin[h]] \notin raced => current[h] = balance[AccountOf[origin[h]]]
<1>1. pc[h] = "write" /\ InTransfer(h) /\ TypeInv
  BY DEF WriteBalance, Goto, InTransfer, Moving, RaceInv
<1>2. origin[h] \in Origins /\ AccountOf[origin[h]] \in Accounts /\ Amount(origin[h]) \in Int
  BY <1>1, OriginType
<1>3. AccountOf[origin[h]] \notin raced => current[h] = balance[AccountOf[origin[h]]]
  BY <1>1, <1>2 DEF RaceInv, ReadIsCurrent, Writing
<1> QED BY <1>1, <1>2, <1>3 DEF WriteBalance, history, TypeInv, TypeOK

(* A balance falls only by the write of a debit attempt, or on an account  *)
(* for which transfers have raced.                                         *)
LoweredBy ==
  \A a \in Accounts : balance'[a] < balance[a] =>
    a \in raced \/ \E d \in Debits : AccountOf[d] = a /\ WriteBalance(d)

LEMMA LoweredStep == RaceInv /\ [Next]_vars => LoweredBy
<1> SUFFICES ASSUME RaceInv, [Next]_vars, NEW a \in Accounts, balance'[a] < balance[a],
                    a \notin raced
             PROVE  \E d \in Debits : AccountOf[d] = a /\ WriteBalance(d)
  BY DEF LoweredBy
<1>1. balance[a] \in Int /\ TypeInv
  BY DEF RaceInv, TypeInv, TypeOK
<1>2. PICK h \in Movers : WriteBalance(h)
  BY <1>1, WrittenStep
<1>3. a = AccountOf[origin[h]] /\ balance'[a] = balance[a] + Amount(origin[h])
  BY <1>1, <1>2, WriteAdds
<1>4. origin[h] \in Debits
  <2>1. origin[h] \in Origins
    BY <1>2, WriteAdds
  <2> QED BY <1>1, <1>3, <2>1, DesignatedAssumption DEF Amount
<1>5. h \notin Workers
  <2>1. InTransfer(h)
    BY <1>2 DEF WriteBalance, Goto, InTransfer, Moving
  <2> QED BY <1>1, <1>4, <2>1, DesignatedAssumption DEF TypeInv, HasOrigin
<1>6. origin[h] = h
  BY <1>1, <1>5 DEF TypeInv, HasOrigin, Movers
<1> QED BY <1>2, <1>3, <1>4, <1>6

(* Whatever the deployment, the number of workers and captures and their   *)
(* order, a balance falls only by the write of a debit attempt, or on an   *)
(* account for which two transfers have raced.                             *)
THEOREM LoweredByAlways == Spec => [][LoweredBy]_balance
<1>1. RaceInv /\ [Next]_vars => [LoweredBy]_balance
  BY LoweredStep
<1> QED BY <1>1, RaceInvariance, PTL DEF Spec
-----------------------------------------------------------------------------
(* What a worker has found covered stays covered, or has been debited, or  *)
(* its account raced for.                                                  *)
Safe(a) == balance[a] >= Required[a] \/ Debited(a) \/ a \in raced
FoundSafe ==
  /\ \A w \in Workers : pc[w] = "cover" /\ checking[w] = "GST_BUFFER" => Safe("PAYGW_BUFFER")
  /\ \A w \in Workers : pc[w] = "artefact" => \A a \in Accounts : Safe(a)
  /\ certified # {} => \A a \in Accounts : Safe(a)

CoverInv == RaceInv /\ FoundSafe

LEMMA RacedGrows ==
  ASSUME TypeInv, [Next]_vars
  PROVE  raced \subseteq raced'
<1>1. ASSUME NEW h \in Movers, TransferStep(h) PROVE raced \subseteq raced'
  BY <1>1 DEF TransferStep, ReadBalance, WriteBalance, RecordTransfer, AuditTransfer, history
<1>2. ASSUME NEW w \in Workers, MarkApplied(w) PROVE raced \subseteq raced'
  BY <1>2 DEF MarkApplied, history
<1>3. ASSUME NEW h \in Movers, Crash(h) PROVE raced \subseteq raced'
  BY <1>3 DEF Crash
<1> QED BY <1>1, <1>2, <1>3, StepKinds DEF Quiet

LEMMA SafeStep ==
  ASSUME RaceInv, [Next]_vars, NEW a \in Accounts, Safe(a)
  PROVE  Safe(a)'
<1>1. TypeInv /\ TypeInv'
  BY TypeStep DEF RaceInv
<1>2. balance[a] \in Int /\ balance'[a] \in Int /\ Required[a] \in Int
  BY <1>1, DesignatedAssumption DEF TypeInv, TypeOK
<1>3. \A d \in Debits : d \in Origins /\ d \in Movers /\ Written(d) \in Nat
  BY <1>1, WrittenType, DesignatedAssumption DEF Origins, Movers
<1>4. \A d \in Debits : origin[d] = d
  BY <1>1, DesignatedAssumption DEF TypeInv, HasOrigin
<1>5. \A d \in Debits : Written(d)' \in Nat /\ Written(d)' >= Written(d)
  BY <1>1, <1>3, WrittenStep DEF WrittenKept, WrittenBy
<1>6. CASE Debited(a)
  <2>1. PICK d \in Debits : AccountOf[d] = a /\ Written(d) > 0
    BY <1>6 DEF Debited
  <2>2. Written(d)' > 0
    BY <1>3, <1>5, <2>1
  <2>3. Debited(a)'
    BY <2>1, <2>2 DEF Debited
  <2> QED BY <2>3 DEF Safe
<1>7. CASE a \in raced
  BY <1>1, <1>7, RacedGrows DEF Safe
<1>8. CASE balance[a] >= Required[a] /\ balance'[a] < balance[a] /\ a \notin raced
  <2>1. PICK d \in Debits : AccountOf[d] = a /\ WriteBalance(d)
    BY <1>8, LoweredStep DEF LoweredBy
  <2>2. Written(d)' = Written(d) + 1
    BY <1>1, <1>3, <1>4, <2>1, WrittenEnter DEF WrittenBy
  <2> QED BY <1>3, <2>1, <2>2 DEF Debited, Safe
<1>9. CASE balance[a] >= Required[a] /\ ~(balance'[a] < balance[a])
  BY <1>2, <1>9 DEF Safe
<1> QED BY <1>6, <1>7, <1>8, <1>9 DEF Safe

LEMMA SafeKept ==
  ASSUME CoverInv, [Next]_vars, certified' \subseteq certified,
         \A w \in Workers : pc'[w] \in {"cover", "artefact"} =>
           pc'[w] = pc[w] /\ checking'[w] = checking[w]
  PROVE  FoundSafe'
<1>1. \A a \in Accounts : Safe(a) => Safe(a)'
  BY SafeStep DEF CoverInv
<1> QED BY <1>1 DEF CoverInv, FoundSafe, Accounts

LEMMA CoverJob ==
  ASSUME CoverInv, [Next]_vars, NEW w \in Workers, JobStep(w)
  PROVE  FoundSafe'
<1>0. /\ pc \in [Actors -> Stages] /\ Workers \subseteq Actors /\ w \in Actors
      /\ checking \in [Workers -> Accounts] /\ Accounts = {"PAYGW_BUFFER", "GST_BUFFER"}
      /\ balance \in [Accounts -> Int] /\ Required \in [Accounts -> Nat]
  BY DesignatedAssumption
     DEF CoverInv, RaceInv, TypeInv, TypeOK, Movers, Actors, Accounts
<1>1. \A a \in Accounts : Safe(a) => Safe(a)'
  BY SafeStep DEF CoverInv
<1>2. CASE \/ StartRun(w) \/ ListPos(w) \/ NextContribution(w) \/ MarkApplied(w)
           \/ FindShort(w) \/ RaiseAlert(w) \/ LockAccount(w) \/ NextNight(w)
  <2>1. certified' \subseteq certified /\ checking' = checking
    BY <1>2 DEF StartRun, ListPos, NextContribution, MarkApplied, FindShort, RaiseAlert,
       LockAccount, NextNight, local, job
  <2>2. \E to \in Stages \ {"cover", "artefact"} : pc' = [pc EXCEPT ![w] = to]
    BY <1>2 DEF StartRun, ListPos, NextContribution, MarkApplied, FindShort, RaiseAlert,
       LockAccount, NextNight, Goto, Stages
  <2> QED BY <1>0, <2>1, <2>2, SafeKept
<1>3. CASE StartCoverage(w)
  <2>1. /\ certified' = certified /\ pc'[w] = "cover" /\ checking'[w] = "PAYGW_BUFFER"
        /\ \A v \in Workers : v # w => pc'[v] = pc[v] /\ checking'[v] = checking[v]
    BY <1>0, <1>3 DEF StartCoverage, Goto
  <2> QED BY <1>0, <1>1, <2>1 DEF CoverInv, FoundSafe
<1>4. CASE CoveredAccount(w)
  <2>1. /\ certified' = certified /\ checking'[w] = "GST_BUFFER" /\ pc[w] = "cover"
        /\ pc'[w] = IF checking[w] = "GST_BUFFER" THEN "artefact" ELSE "cover"
        /\ \A v \in Workers : v # w => pc'[v] = pc[v] /\ checking'[v] = checking[v]
    BY <1>0, <1>4 DEF CoveredAccount, Goto
  <2>2. checking[w] \in Accounts /\ Safe(checking[w])
    BY <1>0, <1>4 DEF CoveredAccount, Short, Safe
  <2>3. Safe("PAYGW_BUFFER")
    BY <1>0, <2>1, <2>2 DEF CoverInv, FoundSafe
  <2>4. checking[w] = "GST_BUFFER" => \A a \in Accounts : Safe(a)
    BY <1>0, <2>2, <2>3
  <2> QED BY <1>0, <1>1, <2>1, <2>3, <2>4 DEF CoverInv, FoundSafe
<1>5. CASE Artefact(w)
  <2>1. /\ pc[w] = "artefact" /\ checking' = checking
        /\ \A v \in Workers : pc'[v] \in {"cover", "artefact"} => pc'[v] = pc[v]
    BY <1>0, <1>5 DEF Artefact, Goto
  <2>2. \A a \in Accounts : Safe(a)
    BY <2>1 DEF CoverInv, FoundSafe
  <2> QED BY <1>0, <1>1, <2>1, <2>2 DEF FoundSafe
<1> QED BY <1>2, <1>3, <1>4, <1>5 DEF JobStep

LEMMA CoverStep == CoverInv /\ [Next]_vars => FoundSafe'
<1> SUFFICES ASSUME CoverInv, [Next]_vars PROVE FoundSafe'
  OBVIOUS
<1>0. /\ pc \in [Actors -> Stages] /\ Workers \subseteq Movers /\ TypeInv
      /\ \A s \in Submissions : s \notin Workers
      /\ \A c \in Captures : c \notin Workers
      /\ Movers \subseteq Actors
  BY DesignatedAssumption DEF CoverInv, RaceInv, TypeInv, TypeOK, Movers, Actors, Origins
<1>1. ASSUME NEW s \in Submissions, SubmissionStep(s) PROVE FoundSafe'
  BY <1>0, <1>1, SafeKept DEF SubmissionStep, FindEntry, CreateEntry, CreateRow, Answer,
     Goto, local, job
<1>2. ASSUME NEW c \in Captures, Capture(c) PROVE FoundSafe'
  BY <1>0, <1>2, SafeKept DEF Capture, Goto, local, job
<1>3. ASSUME NEW h \in Movers, TransferStep(h) PROVE FoundSafe'
  <2>1. pc'[h] \notin {"cover", "artefact"}
    BY <1>0, <1>3 DEF TransferStep, ReadBalance, WriteBalance, RecordTransfer, AuditTransfer,
       Goto
  <2>2. /\ certified' = certified /\ checking' = checking
        /\ \A g \in Movers : g # h => pc'[g] = pc[g]
    BY <1>0, <1>3, TransferFrame
  <2>3. \A w \in Workers : pc'[w] \in {"cover", "artefact"} =>
          pc'[w] = pc[w] /\ checking'[w] = checking[w]
    BY <1>0, <2>1, <2>2
  <2> QED BY <2>2, <2>3, SafeKept
<1>4. ASSUME NEW h \in Actors, Crash(h) PROVE FoundSafe'
  <2>1. /\ certified' = certified /\ checking' = checking
        /\ pc' = [pc EXCEPT ![h] = "failed"]
    BY <1>4 DEF Crash, local, job
  <2>2. \A w \in Workers : pc'[w] \in {"cover", "artefact"} =>
          pc'[w] = pc[w] /\ checking'[w] = checking[w]
    BY <1>0, <2>1
  <2> QED BY <2>1, <2>2, SafeKept
<1>5. CASE UNCHANGED vars
  BY <1>5, SafeKept DEF vars, local, job
<1> QED BY <1>1, <1>2, <1>3, <1>4, <1>5, CoverJob, NextCases

(* An organisation whose last run produced the artefact covers what its    *)
(* BAS cycle requires, from then on, except on an account that a debit     *)
(* attempt lowered or transfers raced for.                                 *)
THEOREM CertifiedCoveredAlways == Spec => []CertifiedCovered
<1>1. Init => FoundSafe
  BY DEF Init, FoundSafe, Actors, Movers
<1>2. RaceInv /\ FoundSafe /\ [Next]_vars => FoundSafe'
  BY CoverStep DEF CoverInv
<1>3. FoundSafe => CertifiedCovered
  BY DEF FoundSafe, Safe, CertifiedCovered
<1> QED BY <1>1, <1>2, <1>3, RaceInvariance, PTL DEF Spec
-----------------------------------------------------------------------------
(* One more transfer written adds the cents of its amount to its side.     *)
LEMMA CentsSame ==
  ASSUME WrittenKept, NEW S, S \subseteq Origins, NEW a
  PROVE  Cents(S, a)' = Cents(S, a)
<1>1. \A p \in S : Written(p)' = Written(p)
  BY DEF WrittenKept
<1> HIDE DEF Written
<1> QED BY <1>1 DEF Cents

LEMMA CentsAdd ==
  ASSUME TypeInv, NEW o \in Origins, NEW S, S \subseteq Origins, NEW a, IsFiniteSet(Cents(S, a)),
         \A p \in Origins : Written(p)' = IF p = o THEN Written(p) + 1 ELSE Written(p)
  PROVE  /\ IsFiniteSet(Cents(S, a)')
         /\ Cardinality(Cents(S, a)) \in Nat
         /\ Cardinality(Cents(S, a)') = Cardinality(Cents(S, a))
              + (IF o \in S /\ a = AccountOf[o] THEN AmountOf[o] ELSE 0)
<1> DEFINE P == {q \in S : AccountOf[q] = a}
           D(p) == ({p} \X (1..Written(p))) \X (1..AmountOf[p])
           E(p) == ({p} \X (1..Written(p)')) \X (1..AmountOf[p])
           k == Written(o) + 1
           n == AmountOf[o]
           A == Cents(S, a)
           B == {<<o, k>>} \X (1..n)
<1>0. /\ Written(o) \in Nat /\ AmountOf[o] \in Nat
      /\ \A p \in Origins : Written(p)' = IF p = o THEN k ELSE Written(p)
  BY WrittenType, DesignatedAssumption
<1>1. A = UNION {D(p) : p \in P} /\ Cents(S, a)' = UNION {E(p) : p \in P}
  BY DEF Cents
<1>2. Cardinality(A) \in Nat
  BY FS_CardinalityType
<1>3. CASE o \notin P
  <2>1. \A p \in P : E(p) = D(p)
    BY <1>0, <1>3
  <2>2. Cents(S, a)' = A
    <3> HIDE DEF D, E, P
    <3> QED BY <1>1, <2>1
  <2> QED BY <1>2, <1>3, <2>2
<1>4. CASE o \in P
  <2>1. Cents(S, a)' = A \cup B
    <3>1. 1..k = (1..Written(o)) \cup {k}
      BY <1>0
    <3>2. Written(o)' = k
      BY <1>0
    <3> HIDE DEF k
    <3>3. E(o) = D(o) \cup B
      BY <3>1, <3>2
    <3>4. \A p \in P : p # o => E(p) = D(p)
      BY <1>0
    <3> HIDE DEF D, E, B, P
    <3> QED BY <1>1, <1>4, <3>3, <3>4
  <2>2. A \cap B = {}
    <3>1. \A p \in P : \A x \in D(p) : x[1][1] = p /\ x[1][2] \in 1..Written(p)
      OBVIOUS
    <3>2. \A x \in A : x[1][1] = o => x[1][2] \in 1..Written(o)
      <4> HIDE DEF D, P, A
      <4> QED BY <1>1, <3>1
    <3>3. \A x \in B : x[1][1] = o /\ x[1][2] = k
      OBVIOUS
    <3>4. k \notin 1..Written(o)
      BY <1>0
    <3> HIDE DEF A, B, k
    <3> QED BY <3>2, <3>3, <3>4
  <2>3. IsFiniteSet(B) /\ Cardinality(B) = n
    <3> HIDE DEF n
    <3>0. n \in Nat
      BY <1>0 DEF n
    <3>1. IsFiniteSet(1..n) /\ Cardinality(1..n) = n
      BY <3>0, FS_Interval
    <3>2. IsFiniteSet({<<o, k>>}) /\ Cardinality({<<o, k>>}) = 1
      BY FS_Singleton
    <3> HIDE DEF k
    <3>3. IsFiniteSet(B) /\ Cardinality(B) = 1 * n
      BY <3>1, <3>2, FS_Product
    <3> QED BY <3>0, <3>3
  <2>4. IsFiniteSet(A)
    OBVIOUS
  <2>5. o \in S /\ a = AccountOf[o]
    BY <1>4
  <2> HIDE DEF A, B, n
  <2>6. /\ IsFiniteSet(A \cup B)
        /\ Cardinality(A \cup B) = Cardinality(A) + Cardinality(B) - Cardinality(A \cap B)
    BY <2>3, <2>4, FS_Union
  <2>7. Cardinality(A \cap B) = 0 /\ Cardinality(B) \in Nat
    BY <1>0, <2>2, <2>3, <2>4, FS_EmptySet, FS_CardinalityType
  <2>8. Cardinality(A \cup B) = Cardinality(A) + n
    BY <1>2, <2>3, <2>6, <2>7
  <2> QED BY <1>2, <2>1, <2>5, <2>6, <2>8 DEF A, n
<1> QED BY <1>3, <1>4

DebitFree(a) == \A d \in Debits : AccountOf[d] # a
Booked ==
  \A a \in Accounts :
    /\ IsFiniteSet(Cents(Origins \ Debits, a)) /\ IsFiniteSet(Cents(Debits, a))
    /\ a \notin raced => balance[a] = Transferred(a)
    /\ DebitFree(a) => /\ balance[a] <= Transferred(a)
                       /\ \A h \in Movers : Writing(h, a) => current[h] <= Transferred(a)
BookedInv == RaceInv /\ Booked

LEMMA TransferredAdd ==
  ASSUME BookedInv, NEW h \in Movers, WrittenBy(h), origin[h] \in Origins, NEW a \in Accounts
  PROVE  /\ IsFiniteSet(Cents(Origins \ Debits, a)') /\ IsFiniteSet(Cents(Debits, a)')
         /\ Transferred(a) \in Int
         /\ Transferred(a)' =
              Transferred(a) + (IF a = AccountOf[origin[h]] THEN Amount(origin[h]) ELSE 0)
<1> DEFINE o == origin[h]
           C == Origins \ Debits
<1>1. C \subseteq Origins /\ Debits \subseteq Origins /\ AmountOf[o] \in Nat /\ TypeInv
  BY DesignatedAssumption DEF Origins, BookedInv, RaceInv
<1>2. \A p \in Origins : Written(p)' = IF p = o THEN Written(p) + 1 ELSE Written(p)
  BY DEF WrittenBy
<1>3. IsFiniteSet(Cents(C, a)) /\ IsFiniteSet(Cents(Debits, a))
  BY DEF BookedInv, Booked
<1>4. /\ IsFiniteSet(Cents(C, a)') /\ Cardinality(Cents(C, a)) \in Nat
      /\ Cardinality(Cents(C, a)') = Cardinality(Cents(C, a))
           + (IF o \in C /\ a = AccountOf[o] THEN AmountOf[o] ELSE 0)
  BY <1>1, <1>3, <1>2, CentsAdd
<1>5. /\ IsFiniteSet(Cents(Debits, a)') /\ Cardinality(Cents(Debits, a)) \in Nat
      /\ Cardinality(Cents(Debits, a)') = Cardinality(Cents(Debits, a))
           + (IF o \in Debits /\ a = AccountOf[o] THEN AmountOf[o] ELSE 0)
  BY <1>1, <1>3, <1>2, CentsAdd
<1>6. o \in C <=> o \notin Debits
  OBVIOUS
<1>7. /\ Transferred(a) = Cardinality(Cents(C, a)) - Cardinality(Cents(Debits, a))
      /\ Transferred(a)' = Cardinality(Cents(C, a)') - Cardinality(Cents(Debits, a)')
  BY DEF Transferred
<1>8. Amount(o) = IF o \in Debits THEN -AmountOf[o] ELSE AmountOf[o]
  BY DEF Amount
<1> HIDE DEF o, C
<1> QED BY <1>1, <1>4, <1>5, <1>6, <1>7, <1>8 DEF o, C

(* What a transfer has read is what it had read, or the balance. *)
LEMMA CurrentStep ==
  ASSUME TypeInv, [Next]_vars, NEW h \in Movers, NEW a \in Accounts, Writing(h, a)'
  PROVE  (Writing(h, a) /\ current'[h] = current[h]) \/ current'[h] = balance[a]
<1>0. /\ pc \in [Actors -> Stages] /\ Movers \subseteq Actors /\ pc'[h] = "write"
      /\ AccountOf[origin'[h]] = a /\ current \in [Movers -> Int]
  BY DEF TypeInv, TypeOK, Actors, Writing
<1>1. CASE Quiet
  BY <1>0, <1>1 DEF Quiet, Moving, Writing
<1>2. ASSUME NEW g \in Movers, TransferStep(g) \/ Crash(g), g # h
      PROVE  Writing(h, a) /\ current'[h] = current[h]
  BY <1>0, <1>2, TransferFrame DEF Writing
<1>3. CASE TransferStep(h)
  <2>1. ReadBalance(h)
    BY <1>0, <1>3 DEF TransferStep, WriteBalance, RecordTransfer, AuditTransfer, Goto
  <2>2. origin' = origin
    BY <1>3, TransferFrame
  <2> QED BY <1>0, <2>1, <2>2 DEF ReadBalance
<1>4. CASE Crash(h)
  BY <1>0, <1>4 DEF Crash
<1>5. ASSUME NEW w \in Workers, MarkApplied(w)
      PROVE  Writing(h, a) /\ current'[h] = current[h]
  <2>1. UNCHANGED <<origin, current>> /\ pc[h] = "write"
    BY <1>0, <1>5 DEF MarkApplied, Goto, transfer, Movers
  <2> QED BY <1>0, <2>1 DEF Writing
<1> QED BY <1>1, <1>2, <1>3, <1>4, <1>5, StepKinds

LEMMA BookedKept ==
  ASSUME BookedInv, [Next]_vars, balance' = balance, WrittenKept
  PROVE  Booked'
<1>1. Origins \ Debits \subseteq Origins /\ Debits \subseteq Origins
  BY DesignatedAssumption DEF Origins
<1>2. ASSUME NEW a \in Accounts
      PROVE  /\ Cents(Origins \ Debits, a)' = Cents(Origins \ Debits, a)
             /\ Cents(Debits, a)' = Cents(Debits, a)
             /\ Transferred(a)' = Transferred(a)
  BY <1>1, CentsSame DEF Transferred
<1>3. TypeInv /\ raced \subseteq raced'
  BY RacedGrows DEF BookedInv, RaceInv
<1>4. \A a \in Accounts, h \in Movers : Writing(h, a)' =>
        (Writing(h, a) /\ current'[h] = current[h]) \/ current'[h] = balance[a]
  BY <1>3, CurrentStep
<1> HIDE DEF Transferred, Cents, Writing
<1> QED BY <1>2, <1>3, <1>4 DEF BookedInv, Booked

LEMMA BookedWrite ==
  ASSUME BookedInv, NEW h \in Movers, WriteBalance(h)
  PROVE  Booked'
<1> DEFINE o == origin[h]
<1>0. /\ TypeInv /\ RaceInv /\ InTransfer(h) /\ pc \in [Actors -> Stages]
      /\ Movers \subseteq Actors /\ balance \in [Accounts -> Int] /\ current \in [Movers -> Int]
  BY DEF BookedInv, RaceInv, TypeInv, TypeOK, Actors, WriteBalance, Goto, InTransfer, Moving
<1>1. /\ o \in Origins /\ AccountOf[o] \in Accounts /\ Amount(o) \in Int /\ raced' = raced
      /\ \A a \in Accounts :
           balance'[a] = IF a = AccountOf[o] THEN current[h] + Amount(o) ELSE balance[a]
      /\ AccountOf[o] \notin raced => current[h] = balance[AccountOf[o]]
  BY <1>0, WriteAdds
<1>2. /\ WrittenBy(h) /\ pc[h] = "write" /\ pc'[h] = "record" /\ origin' = origin
      /\ \A g \in Movers : g # h => pc'[g] = pc[g] /\ current'[g] = current[g]
  BY <1>0, WrittenEnter, TransferFrame DEF WriteBalance, Goto, TransferStep
<1>3. \A g \in Movers, a \in Accounts :
        Writing(g, a)' => Writing(g, a) /\ current'[g] = current[g]
  BY <1>2 DEF Writing
<1>4. Writing(h, AccountOf[o])
  BY <1>2 DEF Writing
<1> SUFFICES ASSUME NEW a \in Accounts
             PROVE  /\ IsFiniteSet(Cents(Origins \ Debits, a)') /\ IsFiniteSet(Cents(Debits, a)')
                    /\ a \notin raced' => balance'[a] = Transferred(a)'
                    /\ DebitFree(a) =>
                         /\ balance'[a] <= Transferred(a)'
                         /\ \A g \in Movers : Writing(g, a)' => current'[g] <= Transferred(a)'
  BY DEF Booked, DebitFree
<1>5. /\ IsFiniteSet(Cents(Origins \ Debits, a)') /\ IsFiniteSet(Cents(Debits, a)')
      /\ Transferred(a) \in Int
      /\ Transferred(a)' = Transferred(a) + (IF a = AccountOf[o] THEN Amount(o) ELSE 0)
  BY <1>1, <1>2, TransferredAdd
<1>6. DebitFree(a) /\ a = AccountOf[o] => Amount(o) >= 0
  BY <1>1, DesignatedAssumption DEF DebitFree, Amount
<1>7. /\ a \notin raced => balance[a] = Transferred(a)
      /\ DebitFree(a) => /\ balance[a] <= Transferred(a)
                         /\ \A g \in Movers : Writing(g, a) => current[g] <= Transferred(a)
  BY DEF BookedInv, Booked
<1>8. balance[a] \in Int /\ \A g \in Movers : current[g] \in Int
  BY <1>0
<1>9. DebitFree(a) /\ a = AccountOf[o] => current[h] <= Transferred(a)
  BY <1>4, <1>7
<1> HIDE DEF o, Transferred, Cents, Writing, DebitFree
<1> QED BY <1>1, <1>3, <1>5, <1>6, <1>7, <1>8, <1>9

(* The death of nobody, and a client that takes the row, leave no transfer *)
(* without one.                                                            *)
NoStray == deployment.actor /\ crashes = 0 => \A o \in Origins : stray[o] = 0

LEMMA StrayStep == TypeInv /\ NoStray /\ [Next]_vars => NoStray'
<1> SUFFICES ASSUME TypeInv, NoStray, [Next]_vars PROVE NoStray'
  OBVIOUS
<1>1. CASE Quiet
  BY <1>1 DEF Quiet, NoStray
<1>2. ASSUME NEW h \in Movers, TransferStep(h) PROVE NoStray'
  <2>1. crashes' = crashes /\ deployment' = deployment
    BY <1>2 DEF TransferStep, ReadBalance, WriteBalance, RecordTransfer, AuditTransfer, world
  <2>2. deployment.actor => stray' = stray
    BY <1>2 DEF TransferStep, ReadBalance, WriteBalance, RecordTransfer, AuditTransfer, Goto,
                Ended, history
  <2> QED BY <2>1, <2>2 DEF NoStray
<1>3. ASSUME NEW w \in Workers, MarkApplied(w) PROVE NoStray'
  BY <1>3 DEF MarkApplied, world, history, NoStray
<1>4. ASSUME NEW h \in Movers, Crash(h) PROVE NoStray'
  <2>1. h \notin Submissions
    BY DesignatedAssumption DEF Movers, Origins
  <2>2. crashes' = crashes + 1 /\ crashes \in Nat
    BY <1>4, <2>1, DesignatedAssumption DEF Crash, TypeInv, TypeOK
  <2> QED BY <2>2 DEF NoStray
<1> QED BY <1>1, <1>2, <1>3, <1>4, StepKinds

LEMMA BookedInit == Init => Booked /\ NoStray
<1> SUFFICES ASSUME Init PROVE Booked /\ NoStray
  OBVIOUS
<1>1. \A o \in Origins : Written(o) = 0
  <2>1. \A o : InFlight(o) = {}
    BY DEF Init, InFlight, Actors
  <2>2. Cardinality({}) = 0
    BY FS_EmptySet
  <2>3. \A o \in Origins : Written(o) = moved[o] + stray[o] + Cardinality(InFlight(o))
    BY DEF Written, InFlight
  <2>4. \A o \in Origins : moved[o] = 0 /\ stray[o] = 0
    BY DEF Init
  <2> QED BY <2>1, <2>2, <2>3, <2>4
<1>2. \A S, a : S \subseteq Origins => Cents(S, a) = {}
  <2> HIDE DEF Written
  <2> QED BY <1>1 DEF Cents
<1>3. \A a : Cents(Origins \ Debits, a) = {} /\ Cents(Debits, a) = {}
  BY <1>2, DesignatedAssumption DEF Origins
<1>4. IsFiniteSet({}) /\ Cardinality({}) = 0
  BY FS_EmptySet
<1>5. \A a : Transferred(a) = 0
  BY <1>3, <1>4 DEF Transferred
<1>6. NoStray
  BY DEF Init, NoStray
<1>7. /\ \A a \in Accounts : balance[a] = 0
      /\ \A h \in Movers, a \in Accounts : ~Writing(h, a)
  BY DEF Init, Writing, Actors
<1> HIDE DEF Transferred, Cents, Writing
<1> QED BY <1>3, <1>4, <1>5, <1>6, <1>7 DEF Booked

LEMMA BookedStep == RaceInv /\ Booked /\ [Next]_vars => Booked'
<1>1. RaceInv => TypeInv
  BY DEF RaceInv
<1> QED BY <1>1, BookedKept, BookedWrite, WrittenStep DEF BookedInv

(* Whatever the deployment and the deaths, an account on which no          *)
(* transfers overlapped holds what the transfers written for it add up to, *)
(* an account nobody debits never more than that, and transfers without a  *)
(* row come from deaths and from clients that refuse the row only.         *)
THEOREM BalanceIsTransfersAlways == Spec => []BalanceIsTransfers
<1>1. Booked /\ NoStray => BalanceIsTransfers
  <2> HIDE DEF Transferred
  <2> QED BY DEF Booked, NoStray, DebitFree, BalanceIsTransfers
<1> QED BY <1>1, BookedInit, BookedStep, StrayStep, RaceInvariance, TypeInvariance, PTL DEF Spec
-----------------------------------------------------------------------------
(* Rows are only appended, and only submissions append them. *)
LEMMA RowsGrow ==
  ASSUME TypeInv, [Next]_vars
  PROVE  RowSet \subseteq RowSet'
<1>1. ASSUME NEW s \in Submissions, CreateRow(s) PROVE RowSet \subseteq RowSet'
  <2>1. rows \in Seq(Submissions) /\ rows' = Append(rows, s)
    BY <1>1 DEF CreateRow, TypeInv, TypeOK
  <2>2. /\ DOMAIN rows = 1..Len(rows) /\ Len(rows) \in Nat
        /\ DOMAIN rows' = 1..(Len(rows) + 1)
        /\ \A i \in 1..Len(rows) : rows'[i] = rows[i]
    BY <2>1
  <2> QED BY <2>2 DEF RowSet
<1>2. ASSUME NEW s \in Submissions, SubmissionStep(s), ~CreateRow(s) PROVE rows' = rows
  BY <1>2 DEF SubmissionStep, FindEntry, CreateEntry, Answer, records, tables
<1>3. ASSUME NEW h \in Actors, Crash(h) PROVE rows' = rows
  BY <1>3 DEF Crash, records
<1>4. UNCHANGED vars => rows' = rows
  BY DEF vars, tables, records
<1>5. (\E s \in Submissions : CreateRow(s)) \/ rows' = rows
  BY <1>2, <1>3, <1>4, NextCases, MoverFrame
<1> QED BY <1>1, <1>5 DEF RowSet

(* What a worker has listed is recorded, and it has not applied it; what   *)
(* it is transferring it has listed.                                       *)
Holds(w) ==
  /\ todo[w] \subseteq RowSet
  /\ \A s \in todo[w] : w \notin appliedBy[s]
  /\ InTransfer(w) => origin[w] \in todo[w]
AllHold == \A w \in Workers : Holds(w)

LEMMA HoldsKept ==
  ASSUME TypeInv, [Next]_vars, NEW w \in Workers, Holds(w), todo'[w] \subseteq todo[w],
         \A s \in Submissions : w \in appliedBy'[s] => w \in appliedBy[s],
         InTransfer(w)' => InTransfer(w) /\ origin'[w] = origin[w] /\ todo'[w] = todo[w]
  PROVE  Holds(w)'
<1>1. todo[w] \subseteq Submissions /\ RowSet \subseteq RowSet'
  BY RowsGrow DEF TypeInv, TypeOK
<1> QED BY <1>1 DEF Holds

LEMMA HoldsJob ==
  ASSUME TypeInv, [Next]_vars, AllHold, NEW w \in Workers, JobStep(w), NEW v \in Workers
  PROVE  Holds(v)'
<1>0. /\ pc \in [Actors -> Stages] /\ Workers \subseteq Actors /\ w \in Movers
      /\ todo \in [Workers -> SUBSET Submissions] /\ Holds(v)
      /\ origin \in [Movers -> Origins \cup Workers] /\ v \in Movers
      /\ appliedBy \in [Submissions -> SUBSET Workers]
  BY DEF TypeInv, TypeOK, Actors, Movers, AllHold
<1>1. CASE StartRun(w) /\ v = w
  <2>1. todo'[v] \subseteq RowSet /\ \A s \in todo'[v] : appliedBy[s] = {}
    BY <1>0, <1>1 DEF StartRun, Pending, RowSet, applied, TypeInv, TypeOK
  <2>2. appliedBy' = appliedBy /\ rows' = rows /\ ~InTransfer(v)'
    BY <1>0, <1>1 DEF StartRun, tables, records, Goto, InTransfer, Moving
  <2> QED BY <2>1, <2>2 DEF Holds, RowSet
<1>2. CASE ListPos(w) /\ v = w
  <2>1. todo'[v] \subseteq RowSet /\ \A s \in todo'[v] : v \notin appliedBy[s]
    BY <1>0, <1>2 DEF ListPos, Pending, RowSet, applied, TypeInv, TypeOK, Holds
  <2>2. appliedBy' = appliedBy /\ rows' = rows /\ ~InTransfer(v)'
    BY <1>0, <1>2 DEF ListPos, tables, records, Goto, InTransfer, Moving
  <2> QED BY <2>1, <2>2 DEF Holds, RowSet
<1>3. CASE NextContribution(w) /\ v = w
  <2>1. todo' = todo /\ appliedBy' = appliedBy /\ rows' = rows /\ origin'[v] \in todo[v]
    BY <1>0, <1>3 DEF NextContribution, tables, records, job
  <2> QED BY <1>0, <2>1 DEF Holds, RowSet
<1>4. CASE MarkApplied(w) /\ v = w
  <2>1. /\ todo'[v] = todo[v] \ {origin[v]} /\ ~InTransfer(v)'
        /\ \A s \in Submissions : s # origin[v] => appliedBy'[s] = appliedBy[s]
        /\ rows' = rows
    BY <1>0, <1>4 DEF MarkApplied, Goto, InTransfer, Moving
  <2> QED BY <1>0, <2>1 DEF Holds, RowSet
<1>5. CASE v = w /\ ~StartRun(w) /\ ~ListPos(w) /\ ~NextContribution(w) /\ ~MarkApplied(w)
  <2>1. appliedBy' = appliedBy /\ todo'[v] \subseteq todo[v]
    BY <1>0, <1>5 DEF JobStep, StartCoverage, CoveredAccount, FindShort, RaiseAlert,
       LockAccount, Artefact, NextNight, tables, records, local, job
  <2>2. \E to \in Stages \ {"transfer", "write", "record", "audit", "mark"} :
          pc' = [pc EXCEPT ![w] = to]
    BY <1>5 DEF JobStep, StartCoverage, CoveredAccount, FindShort, RaiseAlert, LockAccount,
       Artefact, NextNight, Goto, Stages
  <2>3. ~InTransfer(v)'
    BY <1>0, <1>5, <2>2 DEF InTransfer, Moving
  <2> QED BY <1>0, <2>1, <2>3, HoldsKept
<1>6. CASE v # w
  <2>1. \E to \in Stages : pc' = [pc EXCEPT ![w] = to]
    BY DEF JobStep, StartRun, ListPos, NextContribution, MarkApplied, StartCoverage,
       CoveredAccount, FindShort, RaiseAlert, LockAccount, Artefact, NextNight, Goto, Stages
  <2>2. \/ origin' = origin
        \/ \E s : origin' = [origin EXCEPT ![w] = s]
    BY DEF JobStep, StartRun, ListPos, NextContribution, MarkApplied, StartCoverage,
       CoveredAccount, FindShort, RaiseAlert, LockAccount, Artefact, NextNight, transfer, local
  <2>3. \/ todo' = todo
        \/ \E S : todo' = [todo EXCEPT ![w] = S]
    BY DEF JobStep, StartRun, ListPos, NextContribution, MarkApplied, StartCoverage,
       CoveredAccount, FindShort, RaiseAlert, LockAccount, Artefact, NextNight, job, local
  <2>4. \/ appliedBy' = appliedBy
        \/ appliedBy' = [appliedBy EXCEPT ![origin[w]] = appliedBy[origin[w]] \cup {w}]
    BY DEF JobStep, StartRun, ListPos, NextContribution, MarkApplied, StartCoverage,
       CoveredAccount, FindShort, RaiseAlert, LockAccount, Artefact, NextNight, records, tables
  <2>5. pc'[v] = pc[v] /\ origin'[v] = origin[v] /\ todo'[v] = todo[v]
    BY <1>0, <1>6, <2>1, <2>2, <2>3
  <2>6. \A s \in Submissions : v \in appliedBy'[s] => v \in appliedBy[s]
    BY <1>0, <1>6, <2>4
  <2> QED BY <1>0, <2>5, <2>6, HoldsKept DEF InTransfer, Moving
<1> QED BY <1>1, <1>2, <1>3, <1>4, <1>5, <1>6

LEMMA HoldsStep == TypeInv /\ AllHold /\ [Next]_vars => AllHold'
<1> SUFFICES ASSUME TypeInv, AllHold, [Next]_vars, NEW w \in Workers PROVE Holds(w)'
  BY DEF AllHold
<1>0. /\ pc \in [Actors -> Stages] /\ Holds(w) /\ w \in Movers /\ w \in Actors
      /\ \A s \in Submissions : s # w /\ s \notin Movers
      /\ \A c \in Captures : c # w
  BY DesignatedAssumption DEF TypeInv, TypeOK, Movers, Actors, Origins, AllHold
<1>1. ASSUME NEW s \in Submissions, SubmissionStep(s) PROVE Holds(w)'
  BY <1>0, <1>1, HoldsKept
     DEF SubmissionStep, FindEntry, CreateEntry, CreateRow, Answer, Goto, InTransfer, Moving,
         records, transfer, job, tables, local
<1>2. ASSUME NEW c \in Captures, Capture(c) PROVE Holds(w)'
  BY <1>0, <1>2, HoldsKept
     DEF Capture, Goto, InTransfer, Moving, records, transfer, job, tables, local
<1>3. ASSUME NEW h \in Movers, TransferStep(h) PROVE Holds(w)'
  <2>1. /\ origin' = origin /\ todo' = todo /\ appliedBy' = appliedBy
        /\ h # w => pc'[w] = pc[w]
    BY <1>0, <1>3, TransferFrame
  <2>2. InTransfer(w)' => InTransfer(w)
    BY <1>0, <1>3, <2>1 DEF TransferStep, ReadBalance, WriteBalance, RecordTransfer,
       AuditTransfer, Goto, InTransfer, Moving
  <2> QED BY <1>0, <2>1, <2>2, HoldsKept
<1>4. ASSUME NEW h \in Actors, Crash(h) PROVE Holds(w)'
  BY <1>0, <1>4, HoldsKept DEF Crash, InTransfer, Moving, records, transfer, job, local
<1>5. CASE UNCHANGED vars
  BY <1>0, <1>5, HoldsKept DEF vars, InTransfer, Moving, records, transfer, job, tables, local
<1> QED BY <1>1, <1>2, <1>3, <1>4, <1>5, HoldsJob, NextCases
-----------------------------------------------------------------------------
(* A transfer row of a contribution is of a transfer that ended before its *)
(* mark, of one between row and mark, or of one that was marked: the       *)
(* latter two at most once for each worker.                                *)
Late(w) == pc[w] \in {"audit", "mark"}
Makers(s) == appliedBy[s] \cup {w \in Workers : Late(w) /\ origin[w] = s}
Counted ==
  \A s \in Submissions :
    /\ moved[s] = unmarked[s] + Cardinality(Makers(s))
    /\ moved[s] > 0 => s \in RowSet
OnceInv == TypeInv /\ AllHold /\ Counted

LEMMA MakersFinite ==
  ASSUME TypeInv, NEW s \in Submissions
  PROVE  /\ Makers(s) \subseteq Workers /\ IsFiniteSet(Makers(s))
         /\ Cardinality(Makers(s)) \in Nat /\ Cardinality(Makers(s)) <= Cardinality(Workers)
<1>1. Makers(s) \subseteq Workers
  BY DEF Makers, TypeInv, TypeOK
<1> QED BY <1>1, FS_Subset, FS_CardinalityType, DesignatedAssumption

LEMMA CountedKept ==
  ASSUME OnceInv, [Next]_vars, UNCHANGED <<moved, unmarked>>,
         \A s \in Submissions : Makers(s)' = Makers(s)
  PROVE  Counted'
<1>1. RowSet \subseteq RowSet'
  BY RowsGrow DEF OnceInv
<1> QED BY <1>1 DEF OnceInv, Counted

(* The steps of a capture's transfers concern no contribution. *)
LEMMA CountedCapture ==
  ASSUME OnceInv, [Next]_vars, NEW c \in Captures, TransferStep(c) \/ Crash(c)
  PROVE  Counted'
<1>1. /\ c \in Movers /\ c \notin Submissions /\ origin[c] = c
      /\ \A w \in Workers : w # c /\ w \in Movers
      /\ moved \in [Origins -> Nat] /\ unmarked \in [Origins -> Nat]
  BY DesignatedAssumption DEF OnceInv, TypeInv, TypeOK, HasOrigin, Movers, Origins
<1>2. \A s \in Submissions : moved'[s] = moved[s] /\ unmarked'[s] = unmarked[s] /\ s \in Origins
  BY <1>1 DEF TransferStep, ReadBalance, WriteBalance, RecordTransfer, AuditTransfer, Crash,
     Ended, money, history, Origins
<1>3. /\ origin' = origin /\ appliedBy' = appliedBy /\ rows' = rows
      /\ \A w \in Workers : pc'[w] = pc[w]
  BY <1>1, TransferFrame DEF OnceInv
<1>4. \A s \in Submissions : Makers(s)' = Makers(s)
  BY <1>3 DEF Makers, Late
<1> QED BY <1>2, <1>3, <1>4 DEF OnceInv, Counted, RowSet

(* A worker's transfer row is one more, and the worker is not among its    *)
(* makers yet.                                                             *)
LEMMA CountedRecord ==
  ASSUME OnceInv, [Next]_vars, NEW w \in Workers, RecordTransfer(w)
  PROVE  Counted'
<1> DEFINE o == origin[w]
<1>1. /\ w \in Movers /\ w \in Actors /\ pc[w] = "record" /\ pc \in [Actors -> Stages]
      /\ moved \in [Origins -> Nat] /\ unmarked \in [Origins -> Nat] /\ TypeInv
  BY DEF OnceInv, TypeInv, TypeOK, Movers, Actors, RecordTransfer, Goto
<1>2. o \in Submissions /\ o \in Origins /\ o \in RowSet /\ w \notin appliedBy[o]
  BY <1>1 DEF OnceInv, TypeInv, HasOrigin, AllHold, Holds, InTransfer, Moving, Origins
<1>3. /\ origin' = origin /\ appliedBy' = appliedBy /\ rows' = rows
      /\ \A v \in Workers : v # w => pc'[v] = pc[v]
  BY <1>1, TransferFrame DEF TransferStep, Movers
<1>4. CASE deployment.actor
  <2>1. /\ pc'[w] = "audit" /\ unmarked' = unmarked
        /\ moved' = [moved EXCEPT ![o] = moved[o] + 1]
    BY <1>1, <1>4 DEF RecordTransfer, Goto
  <2>2. \A s \in Submissions :
          Makers(s)' = IF s = o THEN Makers(s) \cup {w} ELSE Makers(s)
    BY <1>1, <1>3, <2>1 DEF Makers, Late
  <2>3. w \notin Makers(o)
    BY <1>1, <1>2 DEF Makers, Late
  <2>4. Cardinality(Makers(o) \cup {w}) = Cardinality(Makers(o)) + 1
    BY <1>1, <1>2, <2>3, MakersFinite, AddOne
  <2>5. \A s \in Submissions :
          /\ moved'[s] = IF s = o THEN moved[s] + 1 ELSE moved[s]
          /\ s \in Origins /\ Cardinality(Makers(s)) \in Nat
          /\ moved[s] = unmarked[s] + Cardinality(Makers(s))
          /\ moved[s] > 0 => s \in RowSet
    BY <1>1, <2>1, MakersFinite DEF Origins, OnceInv, Counted
  <2>6. RowSet' = RowSet
    BY <1>3 DEF RowSet
  <2> HIDE DEF o
  <2>7. ASSUME NEW s \in Submissions PROVE moved'[s] = unmarked'[s] + Cardinality(Makers(s)')
    <3>1. CASE s = o
      <4>1. /\ Makers(s)' = Makers(s) \cup {w}
            /\ Cardinality(Makers(s) \cup {w}) = Cardinality(Makers(s)) + 1
        BY <2>2, <2>4, <3>1
      <4>2. moved'[s] = moved[s] + 1 /\ unmarked'[s] = unmarked[s] /\ unmarked[s] \in Nat
        BY <1>1, <2>1, <2>5, <3>1
      <4> QED BY <2>5, <4>1, <4>2
    <3>2. CASE s # o
      <4>1. Makers(s)' = Makers(s)
        BY <2>2, <3>2
      <4> QED BY <2>1, <2>5, <3>2, <4>1
    <3> QED BY <3>1, <3>2
  <2> QED BY <1>2, <2>5, <2>6, <2>7 DEF Counted
<1>5. CASE ~deployment.actor
  <2>1. pc'[w] = "failed" /\ moved' = moved /\ unmarked' = unmarked
    BY <1>1, <1>5 DEF RecordTransfer, Goto, Ended
  <2>2. \A s \in Submissions : Makers(s)' = Makers(s)
    BY <1>1, <1>3, <2>1 DEF Makers, Late
  <2> QED BY <2>1, <2>2, CountedKept
<1> QED BY <1>4, <1>5

(* One that ends between its row and its mark is not among them any more.  *)
LEMMA CountedEnd ==
  ASSUME OnceInv, [Next]_vars, NEW w \in Workers, Ended(w), moved' = moved,
         TransferStep(w) \/ Crash(w), pc'[w] = "failed"
  PROVE  Counted'
<1> DEFINE o == origin[w]
<1>1. /\ w \in Movers /\ w \in Actors /\ pc \in [Actors -> Stages] /\ TypeInv
      /\ moved \in [Origins -> Nat] /\ unmarked \in [Origins -> Nat]
  BY DEF OnceInv, TypeInv, TypeOK, Movers, Actors
<1>2. /\ origin' = origin /\ appliedBy' = appliedBy /\ rows' = rows
      /\ \A v \in Workers : v # w => pc'[v] = pc[v]
  BY <1>1, TransferFrame DEF Movers
<1>3. CASE ~Late(w)
  <2>1. unmarked' = unmarked /\ \A s \in Submissions : Makers(s)' = Makers(s)
    BY <1>1, <1>2, <1>3 DEF Makers, Late, Ended
  <2> QED BY <2>1, CountedKept
<1>4. CASE Late(w)
  <2>1. o \in Submissions /\ o \in Origins /\ w \notin appliedBy[o]
    BY <1>1, <1>4 DEF Late, OnceInv, TypeInv, HasOrigin, AllHold, Holds, InTransfer, Moving,
       Origins
  <2>2. unmarked' = [unmarked EXCEPT ![o] = unmarked[o] + 1]
    BY <1>4 DEF Late, Ended
  <2>3. \A s \in Submissions : Makers(s)' = IF s = o THEN Makers(s) \ {w} ELSE Makers(s)
    BY <1>1, <1>2, <2>1 DEF Makers, Late
  <2>4. w \in Makers(o)
    BY <1>4, <2>1 DEF Makers
  <2>5. Cardinality(Makers(o) \ {w}) = Cardinality(Makers(o)) - 1
    BY <1>1, <2>1, <2>4, MakersFinite, TakeOne
  <2>6. \A s \in Submissions :
          /\ unmarked'[s] = IF s = o THEN unmarked[s] + 1 ELSE unmarked[s]
          /\ unmarked[s] \in Nat /\ Cardinality(Makers(s)) \in Nat
          /\ moved[s] = unmarked[s] + Cardinality(Makers(s))
          /\ moved[s] > 0 => s \in RowSet
    BY <1>1, <2>2, MakersFinite DEF Origins, OnceInv, Counted
  <2>7. RowSet' = RowSet
    BY <1>2 DEF RowSet
  <2> HIDE DEF o
  <2>8. ASSUME NEW s \in Submissions PROVE moved'[s] = unmarked'[s] + Cardinality(Makers(s)')
    <3>1. CASE s = o
      <4>1. /\ Makers(s)' = Makers(s) \ {w}
            /\ Cardinality(Makers(s) \ {w}) = Cardinality(Makers(s)) - 1
        BY <2>3, <2>5, <3>1
      <4>2. unmarked'[s] = unmarked[s] + 1
        BY <2>6, <3>1
      <4> QED BY <2>6, <4>1, <4>2
    <3>2. CASE s # o
      <4>1. Makers(s)' = Makers(s)
        BY <2>3, <3>2
      <4> QED BY <2>6, <3>2, <4>1
    <3> QED BY <3>1, <3>2
  <2> QED BY <2>6, <2>7, <2>8 DEF Counted
<1> QED BY <1>3, <1>4

LEMMA CountedMark ==
  ASSUME OnceInv, [Next]_vars, NEW w \in Workers, MarkApplied(w)
  PROVE  Counted'
<1> DEFINE o == origin[w]
<1>1. /\ w \in Movers /\ w \in Actors /\ pc \in [Actors -> Stages] /\ Workers \subseteq Actors
      /\ appliedBy \in [Submissions -> SUBSET Workers] /\ pc[w] = "mark" /\ pc'[w] = "next"
      /\ \A v \in Workers : v # w => pc'[v] = pc[v]
  BY DEF OnceInv, TypeInv, TypeOK, Movers, Actors, MarkApplied, Goto
<1>2. o \in Submissions
  BY <1>1 DEF OnceInv, TypeInv, HasOrigin, InTransfer, Moving
<1>3. /\ UNCHANGED <<moved, unmarked, origin>>
      /\ appliedBy' = [appliedBy EXCEPT ![o] = appliedBy[o] \cup {w}]
  BY DEF MarkApplied, money, history, transfer
<1>4. ASSUME NEW s \in Submissions PROVE Makers(s)' = Makers(s)
  <2>1. appliedBy'[s] = IF s = o THEN appliedBy[s] \cup {w} ELSE appliedBy[s]
    BY <1>1, <1>2, <1>3
  <2>2. \A v \in Workers : (Late(v) /\ origin[v] = s)'
          <=> v # w /\ Late(v) /\ origin[v] = s
    BY <1>1, <1>3 DEF Late
  <2>3. s = o <=> Late(w) /\ origin[w] = s
    BY <1>1 DEF Late
  <2> HIDE DEF o, Late
  <2> QED BY <1>1, <2>1, <2>2, <2>3 DEF Makers
<1> QED BY <1>3, <1>4, CountedKept

LEMMA CountedStep == TypeInv /\ AllHold /\ Counted /\ [Next]_vars => Counted'
<1> SUFFICES ASSUME OnceInv, [Next]_vars PROVE Counted'
  BY DEF OnceInv
<1>0. /\ TypeInv /\ pc \in [Actors -> Stages] /\ Movers \subseteq Actors
      /\ \A w \in Workers : w \in Movers
  BY DEF OnceInv, TypeInv, TypeOK, Movers, Actors
<1>1. CASE Quiet
  <2>1. UNCHANGED <<moved, unmarked, appliedBy>>
    BY <1>1 DEF Quiet
  <2>2. \A w \in Workers : \/ pc'[w] = pc[w] /\ origin'[w] = origin[w]
                           \/ ~Late(w) /\ ~Late(w)'
    BY <1>0, <1>1 DEF Quiet, Late, Moving
  <2>3. \A s \in Submissions : Makers(s)' = Makers(s)
    BY <2>1, <2>2 DEF Makers, Late
  <2> QED BY <2>1, <2>3, CountedKept
<1>2. ASSUME NEW w \in Workers, ReadBalance(w) \/ WriteBalance(w) PROVE Counted'
  <2>1. /\ UNCHANGED <<moved, unmarked, appliedBy, origin>> /\ ~Late(w) /\ ~Late(w)'
        /\ \A v \in Workers : v # w => pc'[v] = pc[v]
    BY <1>0, <1>2, TransferFrame
       DEF TransferStep, ReadBalance, WriteBalance, Goto, Late, money, history
  <2>2. \A s \in Submissions : Makers(s)' = Makers(s)
    BY <2>1 DEF Makers, Late
  <2> QED BY <2>1, <2>2, CountedKept
<1>3. ASSUME NEW w \in Workers, AuditTransfer(w), deployment.logger # "function" PROVE Counted'
  <2>1. /\ UNCHANGED <<moved, unmarked, appliedBy, origin>> /\ Late(w) /\ Late(w)'
        /\ \A v \in Workers : v # w => pc'[v] = pc[v]
    BY <1>0, <1>3, TransferFrame DEF TransferStep, AuditTransfer, Goto, Late, money
  <2>2. \A s \in Submissions : Makers(s)' = Makers(s)
    BY <2>1 DEF Makers, Late
  <2> QED BY <2>1, <2>2, CountedKept
<1>4. ASSUME NEW w \in Workers, AuditTransfer(w), deployment.logger = "function" PROVE Counted'
  <2>1. Ended(w) /\ moved' = moved /\ pc'[w] = "failed"
    BY <1>0, <1>4 DEF AuditTransfer, Goto, money
  <2> QED BY <1>4, <2>1, CountedEnd DEF TransferStep
<1>5. ASSUME NEW w \in Workers, Crash(w) PROVE Counted'
  <2>1. w \notin Submissions
    BY DesignatedAssumption DEF Origins
  <2>2. Ended(w) /\ moved' = moved /\ pc'[w] = "failed"
    BY <1>0, <1>5, <2>1 DEF Crash, money
  <2> QED BY <1>5, <2>2, CountedEnd
<1>6. ASSUME NEW h \in Movers, TransferStep(h) PROVE Counted'
  BY <1>2, <1>3, <1>4, <1>6, CountedCapture, CountedRecord DEF TransferStep, Movers
<1>7. ASSUME NEW h \in Movers, Crash(h) PROVE Counted'
  BY <1>5, <1>7, CountedCapture DEF Movers
<1> QED BY <1>0, <1>1, <1>6, <1>7, CountedMark, StepKinds

(* Where the audit logger does not throw, each of the transfers that ended *)
(* before their mark was cut short by a death.                             *)
UnmarkedBound ==
  deployment.logger # "function" => IsFiniteSet(Unmarked) /\ Cardinality(Unmarked) <= crashes

LEMMA UnmarkedStep == TypeInv /\ UnmarkedBound /\ [Next]_vars => UnmarkedBound'
<1> SUFFICES ASSUME TypeInv, UnmarkedBound, [Next]_vars PROVE UnmarkedBound'
  OBVIOUS
<1>1. UNCHANGED <<unmarked, crashes, deployment>> => UnmarkedBound'
  BY DEF UnmarkedBound, Unmarked
<1>2. CASE Quiet
  BY <1>1, <1>2 DEF Quiet
<1>3. ASSUME NEW h \in Movers, TransferStep(h) PROVE UnmarkedBound'
  <2>1. crashes' = crashes /\ deployment' = deployment
    BY <1>3 DEF TransferStep, ReadBalance, WriteBalance, RecordTransfer, AuditTransfer, world
  <2>2. deployment.logger # "function" => unmarked' = unmarked
    BY <1>3 DEF TransferStep, ReadBalance, WriteBalance, RecordTransfer, AuditTransfer, Goto,
                Ended, history
  <2> QED BY <1>1, <2>1, <2>2 DEF UnmarkedBound
<1>4. ASSUME NEW w \in Workers, MarkApplied(w) PROVE UnmarkedBound'
  BY <1>1, <1>4 DEF MarkApplied, world, history
<1>5. ASSUME NEW h \in Movers, Crash(h) PROVE UnmarkedBound'
  <2> DEFINE o == origin[h]
             x == <<o, unmarked[o] + 1>>
  <2>1. h \notin Submissions
    BY DesignatedAssumption DEF Movers, Origins
  <2>2. /\ crashes' = crashes + 1 /\ crashes \in Nat /\ deployment' = deployment
        /\ unmarked' = unmarked \/
             (InTransfer(h) /\ unmarked' = [unmarked EXCEPT ![o] = unmarked[o] + 1])
    BY <1>5, <2>1, DesignatedAssumption
       DEF Crash, Ended, InTransfer, Moving, TypeInv, TypeOK
  <2>3. Unmarked' = Unmarked \/ Unmarked' = Unmarked \cup {x}
    <3>1. CASE unmarked' = unmarked
      BY <3>1 DEF Unmarked
    <3>2. CASE InTransfer(h) /\ unmarked' = [unmarked EXCEPT ![o] = unmarked[o] + 1]
      <4>1. o \in Origins /\ unmarked \in [Origins -> Nat]
        BY <3>2, OriginType DEF TypeInv, TypeOK
      <4>2. \A s \in Submissions : s \in Origins
              /\ unmarked'[s] = IF s = o THEN unmarked[s] + 1 ELSE unmarked[s]
        BY <3>2, <4>1 DEF Origins
      <4>3. \A n \in Nat : 1..(n + 1) = (1..n) \cup {n + 1}
        OBVIOUS
      <4> DEFINE D(s) == {s} \X (1..unmarked[s])
                 E(s) == {s} \X (1..unmarked'[s])
      <4>4. \A s \in Submissions : E(s) = IF s = o THEN D(s) \cup {x} ELSE D(s)
        BY <4>1, <4>2, <4>3
      <4>5. /\ Unmarked = UNION {D(s) : s \in Submissions}
            /\ Unmarked' = UNION {E(s) : s \in Submissions}
        BY DEF Unmarked
      <4> HIDE DEF D, E, x, o
      <4> QED BY <4>4, <4>5
    <3> QED BY <2>2, <3>1, <3>2
  <2> HIDE DEF x
  <2>4. ASSUME IsFiniteSet(Unmarked)
        PROVE  /\ IsFiniteSet(Unmarked \cup {x}) /\ Cardinality(Unmarked) \in Nat
               /\ Cardinality(Unmarked \cup {x}) \in Nat
               /\ Cardinality(Unmarked \cup {x}) <= Cardinality(Unmarked) + 1
    <3>1. CASE x \in Unmarked
      <4>1. Unmarked \cup {x} = Unmarked
        BY <3>1
      <4>2. Cardinality(Unmarked) \in Nat
        BY <2>4, FS_CardinalityType
      <4> HIDE DEF Unmarked
      <4> QED BY <2>4, <4>1, <4>2
    <3>2. CASE x \notin Unmarked
      BY <2>4, <3>2, AddOne
    <3> QED BY <3>1, <3>2
  <2>5. ASSUME deployment.logger # "function"
        PROVE  IsFiniteSet(Unmarked)' /\ Cardinality(Unmarked)' <= crashes'
    <3>1. IsFiniteSet(Unmarked) /\ Cardinality(Unmarked) <= crashes
      BY <2>5 DEF UnmarkedBound
    <3>2. /\ IsFiniteSet(Unmarked \cup {x}) /\ Cardinality(Unmarked) \in Nat
          /\ Cardinality(Unmarked \cup {x}) \in Nat
          /\ Cardinality(Unmarked \cup {x}) <= Cardinality(Unmarked) + 1
      BY <2>4, <3>1
    <3> HIDE DEF Unmarked
    <3>3. CASE Unmarked' = Unmarked
      BY <2>2, <3>1, <3>2, <3>3
    <3>4. CASE Unmarked' = Unmarked \cup {x}
      BY <2>2, <3>1, <3>2, <3>4
    <3> QED BY <2>3, <3>3, <3>4
  <2> QED BY <2>2, <2>5 DEF UnmarkedBound
<1> QED BY <1>2, <1>3, <1>4, <1>5, StepKinds

LEMMA OnceInit == Init => AllHold /\ Counted /\ UnmarkedBound
<1> SUFFICES ASSUME Init PROVE AllHold /\ Counted /\ UnmarkedBound
  OBVIOUS
<1>1. \A w \in Workers : pc[w] = "idle" /\ todo[w] = {}
  BY DEF Init, Actors, Movers
<1>2. AllHold
  BY <1>1 DEF AllHold, Holds, InTransfer, Moving
<1>3. \A s \in Submissions : Makers(s) = {} /\ moved[s] = 0 /\ unmarked[s] = 0
  BY <1>1 DEF Init, Makers, Late, Origins
<1>4. IsFiniteSet({}) /\ Cardinality({}) = 0
  BY FS_EmptySet
<1>5. Counted
  BY <1>3, <1>4 DEF Counted
<1>6. Unmarked = {}
  BY <1>3 DEF Unmarked
<1>7. UnmarkedBound
  BY <1>4, <1>6 DEF UnmarkedBound, Init
<1> QED BY <1>2, <1>5, <1>7

(* Any number of workers, whatever interleaves, dies or throws: only what  *)
(* was recorded is transferred, and marked applied only after; and each    *)
(* contribution is transferred once for each worker at most, and once more *)
(* for each transfer that ended before its mark.                           *)
THEOREM TransferredOnceAlways == Spec => []TransferredOnce
<1>1. ASSUME TypeInv, Counted, UnmarkedBound PROVE TransferredOnce
  <2>1. ASSUME NEW s \in Submissions
        PROVE  /\ s \in applied => moved[s] > 0
               /\ moved[s] > 0 => s \in RowSet
               /\ moved[s] <= unmarked[s] + Cardinality(Workers)
    <3>1. /\ unmarked[s] \in Nat /\ moved[s] = unmarked[s] + Cardinality(Makers(s))
          /\ moved[s] > 0 => s \in RowSet
      BY <1>1 DEF TypeInv, TypeOK, Counted, Origins
    <3>2. /\ IsFiniteSet(Makers(s)) /\ Cardinality(Makers(s)) \in Nat
          /\ Cardinality(Makers(s)) <= Cardinality(Workers)
      BY <1>1, MakersFinite
    <3>3. Cardinality(Workers) \in Nat
      BY FS_CardinalityType, DesignatedAssumption
    <3>4. s \in applied => Makers(s) # {}
      BY DEF applied, Makers
    <3>5. Makers(s) # {} => Cardinality(Makers(s)) # 0
      BY <3>2, FS_EmptySet
    <3> QED BY <3>1, <3>2, <3>3, <3>4, <3>5
  <2> QED BY <1>1, <2>1 DEF TransferredOnce, UnmarkedBound
<1> QED BY <1>1, OnceInit, HoldsStep, CountedStep, UnmarkedStep, TypeInvariance, PTL DEF Spec
=============================================================================
