------------------------- MODULE ObligationsProofs -------------------------
(***************************************************************************)
(* Proofs about Obligations for any number of events and lodgments, any    *)
(* amounts and any interleaving: money precedes obligations, a lodgment    *)
(* does all that it reports, and only lodgments that summed what another   *)
(* one was about to mark remit it again.                                   *)
(***************************************************************************)
EXTENDS Obligations, FiniteSetTheorems, TLAPS

(* An account holds exactly what the committed deposits put there.         *)
Money == \A t \in TaxTypes : balance[t] = Total(OfTax(deposited, t))

(* Where an event handler is tells how far its rows are.                   *)
EventProgress ==
  \A e \in Events :
    /\ pc[e] \in {"idle", "received"} => e \notin deposited
    /\ obligation[e] # "none" => e \in deposited
    /\ pc[e] = "deposited" => e \in deposited
    /\ pc[e] \in {"verify", "summed", "compared"} => obligation[e] # "none"
    /\ pc[e] \in {"checked", "alerted", "verified"} => obligation[e] = "verified"
    /\ event[e] = "processed" => pc[e] = "done" /\ obligation[e] = "verified"

(* What a handler has read is covered: by the balance, which only grows,   *)
(* as long as the balance is not read, and then by the balance it read.    *)
ReadsCovered ==
  \A h \in Handlers :
    /\ pc[h] = "summed" => seen[h].pending <= balance[TaxAt(h)]
    /\ pc[h] \in {"compared", "checked", "alerted"} => Covered(h)

NeverShort == NoShortfall /\ \A l \in Lodgments : ~Failed(l)

IInv == TypeOK /\ Money /\ EventProgress /\ ReadsCovered /\ NeverShort
-----------------------------------------------------------------------------
(* Sums over sets of events. *)
LEMMA CentsFinite ==
  ASSUME NEW S \in SUBSET Events
  PROVE  IsFiniteSet(Cents(S)) /\ Total(S) \in Nat
<1>1. IsFiniteSet(S)
  BY FS_Subset, ObligationsAssumption DEF ObligationsAssumption
<1>2. IsFiniteSet(1..MaxAmount)
  BY FS_Interval, ObligationsAssumption DEF ObligationsAssumption
<1>3. IsFiniteSet(S \X (1..MaxAmount))
  BY <1>1, <1>2, FS_Product
<1>4. Cents(S) \in SUBSET (S \X (1..MaxAmount))
  BY DEF Cents
<1>5. IsFiniteSet(Cents(S))
  BY <1>3, <1>4, FS_Subset
<1>6. QED
  BY <1>5, FS_CardinalityType DEF Total

(* A sum over more events is no smaller. *)
LEMMA TotalMonotone ==
  ASSUME NEW T \in SUBSET Events, NEW S \in SUBSET T
  PROVE  Total(S) <= Total(T)
<1>1. Cents(S) \in SUBSET Cents(T)
  BY DEF Cents
<1>2. QED
  BY <1>1, CentsFinite, FS_Subset DEF Total

(* One event adds its amount. *)
LEMMA TotalOne ==
  ASSUME NEW e \in Events
  PROVE  Total({e}) = AmountOf[e]
<1> DEFINE I == 1..AmountOf[e]
           C == Cents({e})
           f == [i \in I |-> <<e, i>>]
<1>1. AmountOf[e] \in Nat /\ AmountOf[e] <= MaxAmount /\ MaxAmount \in Nat
  BY ObligationsAssumption DEF ObligationsAssumption
<1>2. IsFiniteSet(I) /\ Cardinality(I) = AmountOf[e]
  <2> DEFINE n == AmountOf[e]
  <2>1. n \in Int /\ n >= 1
    BY ObligationsAssumption DEF ObligationsAssumption
  <2> HIDE DEF n
  <2>2. IsFiniteSet(1..n) /\ Cardinality(1..n) = IF 1 > n THEN 0 ELSE n - 1 + 1
    BY <2>1, FS_Interval
  <2>3. Cardinality(1..n) = n
    BY <2>1, <2>2
  <2>4. QED
    BY <2>2, <2>3 DEF n
<1>3. \A i \in I : <<e, i>> \in C
  <2> SUFFICES ASSUME NEW i \in I PROVE <<e, i>> \in C
    OBVIOUS
  <2>1. i \in 1..MaxAmount /\ i <= AmountOf[e]
    BY <1>1
  <2>2. <<e, i>> \in {e} \X (1..MaxAmount)
    BY <2>1
  <2>3. QED
    BY <2>1, <2>2 DEF Cents
<1>4. \A c \in C : c[2] \in I /\ c = <<e, c[2]>>
  BY <1>1 DEF Cents
<1>5. f \in Bijection(I, C)
  <2>1. f \in [I -> C]
    BY <1>3
  <2>2. \A a, b \in I : f[a] = f[b] => a = b
    OBVIOUS
  <2>3. \A c \in C : \E i \in I : f[i] = c
    BY <1>4
  <2>4. QED
    BY <2>1, <2>2, <2>3 DEF Bijection, Injection, Surjection, IsInjective
<1>6. ExistsBijection(I, C)
  BY <1>5 DEF ExistsBijection
<1>7. QED
  BY <1>2, <1>6, FS_Bijection DEF Total

(* Sums over disjoint sets of events add up.                               *)
LEMMA TotalDisjoint ==
  ASSUME NEW S \in SUBSET Events, NEW T \in SUBSET Events, S \cap T = {}
  PROVE  Total(S \cup T) = Total(S) + Total(T)
<1> DEFINE A == Cents(S)
           B == Cents(T)
<1>1. A \cap B = {} /\ Cents(S \cup T) = A \cup B
  BY DEF Cents
<1>2. IsFiniteSet(A) /\ IsFiniteSet(B)
  BY CentsFinite
<1> HIDE DEF A, B
<1>3. Cardinality(A \cup B) = Cardinality(A) + Cardinality(B) - Cardinality(A \cap B)
  BY <1>2, FS_Union
<1>4. Cardinality(A) \in Nat /\ Cardinality(B) \in Nat /\ Cardinality(A \cap B) = 0
  BY <1>1, <1>2, FS_CardinalityType, FS_EmptySet
<1>5. Cardinality(A \cup B) = Cardinality(A) + Cardinality(B)
  BY ONLY <1>3, <1>4
<1>6. QED
  BY <1>1, <1>5 DEF A, B, Total

LEMMA TotalAdd ==
  ASSUME NEW S \in SUBSET Events, NEW e \in Events, e \notin S
  PROVE  Total(S \cup {e}) = Total(S) + AmountOf[e]
  BY TotalDisjoint, TotalOne
-----------------------------------------------------------------------------
(* The initial state. *)
LEMMA InitIInv == Init => IInv
<1> SUFFICES ASSUME Init PROVE IInv
  OBVIOUS
<1>1. TypeOK
  BY DEF Init, TypeOK, Handlers, HandlerStates, NotSeen, NoResult, Alerts, Instructions
<1>2. Money
  <2>1. \A t \in TaxTypes : Cents(OfTax(deposited, t)) = {}
    BY DEF Init, OfTax, Cents
  <2>2. QED
    BY <2>1, FS_EmptySet DEF Init, Money, Total
<1>3. EventProgress
  BY DEF Init, EventProgress, Handlers
<1>4. ReadsCovered
  BY DEF Init, ReadsCovered
<1>5. NeverShort
  BY DEF Init, NeverShort, NoShortfall, Failed, NoResult
<1>6. QED
  BY <1>1, <1>2, <1>3, <1>4, <1>5 DEF IInv

(* A handler always verifies one of the two tax types. *)
LEMMA TaxAtType ==
  ASSUME TypeOK, NEW h \in Handlers
  PROVE  TaxAt(h) \in TaxTypes
<1>1. CASE h \in Events
  BY <1>1, ObligationsAssumption DEF ObligationsAssumption, TaxAt
<1>2. CASE h \notin Events
  <2>1. h \in Lodgments /\ (turn[h] = 1 \/ turn[h] = 2)
    BY <1>2 DEF TypeOK, Handlers
  <2>2. TaxOrder[1] \in TaxTypes /\ TaxOrder[2] \in TaxTypes
    BY DEF TaxOrder, TaxTypes
  <2>3. TaxAt(h) = TaxOrder[turn[h]]
    BY <1>2 DEF TaxAt
  <2>4. QED
    BY <2>1, <2>2, <2>3
<1>3. QED
  BY <1>1, <1>2

(* Type correctness is preserved by every step. *)
LEMMA TypeStep == TypeOK /\ [Next]_vars => TypeOK'
<1> SUFFICES ASSUME TypeOK, [Next]_vars PROVE TypeOK'
  OBVIOUS
<1> USE DEF TypeOK, Handlers, HandlerStates, Goto, db, history, NoteSum
<1>1. ASSUME NEW e \in Events, RecordEvent(e) PROVE TypeOK'
  BY <1>1 DEF RecordEvent
<1>2. ASSUME NEW e \in Events, Deposit(e) PROVE TypeOK'
  <2>1. AmountOf[e] \in Nat
    BY ObligationsAssumption DEF ObligationsAssumption
  <2>2. balance' = [t \in TaxTypes |-> balance'[t]]
    BY <1>2 DEF Deposit
  <2>3. \A t \in TaxTypes :
          balance'[t] = IF t = TaxOf[e] THEN balance[t] + AmountOf[e] ELSE balance[t]
    BY <1>2 DEF Deposit
  <2>6. \A t \in TaxTypes : balance'[t] \in Nat
    <3> SUFFICES ASSUME NEW t \in TaxTypes PROVE balance'[t] \in Nat
      OBVIOUS
    <3>1. balance[t] \in Nat
      OBVIOUS
    <3>2. CASE t = TaxOf[e]
      <4>1. balance'[t] = balance[t] + AmountOf[e]
        BY <2>3, <3>2
      <4>2. QED
        BY ONLY <2>1, <3>1, <4>1
    <3>3. CASE t # TaxOf[e]
      BY <2>3, <3>1, <3>3
    <3>4. QED
      BY <3>2, <3>3
  <2>4. balance' \in [TaxTypes -> Nat]
    BY <2>2, <2>6
  <2>5. QED
    BY <1>2, <2>4 DEF Deposit
<1>3. ASSUME NEW e \in Events, RecordObligation(e) PROVE TypeOK'
  BY <1>3 DEF RecordObligation
<1>4. ASSUME NEW h \in Handlers, AggregateObligations(h) PROVE TypeOK'
  <2>1. Total(OfTax(Pending, TaxAt(h))) \in Nat
    <3>1. OfTax(Pending, TaxAt(h)) \in SUBSET Events
      BY DEF OfTax, Pending
    <3>2. QED
      BY <3>1, CentsFinite
  <2>2. QED
    <3>1. seen' \in [Handlers -> [pending : Nat, balance : Nat]]
      BY <1>4, <2>1 DEF AggregateObligations
    <3>2. asked' \in [Lodgments -> [TaxTypes -> SUBSET Events]]
      <4>1. NoteSum(h, TaxAt(h))
        BY <1>4 DEF AggregateObligations
      <4>2. OfTax(Pending, TaxAt(h)) \in SUBSET Events /\ TaxAt(h) \in TaxTypes
        BY TaxAtType DEF OfTax, Pending
      <4>3. CASE h \in Lodgments
        <5>1. asked' = [asked EXCEPT ![h][TaxAt(h)] = OfTax(Pending, TaxAt(h))]
          BY <4>1, <4>3 DEF NoteSum
        <5>2. QED
          BY <4>2, <4>3, <5>1
      <4>4. CASE h \notin Lodgments
        BY <4>1, <4>4 DEF NoteSum
      <4>5. QED
        BY <4>3, <4>4
    <3>3. crowded' \subseteq Lodgments \X TaxTypes
      <4>1. TaxAt(h) \in TaxTypes
        BY TaxAtType
      <4>2. NoteSum(h, TaxAt(h))
        BY <1>4 DEF AggregateObligations
      <4>3. QED
        BY <4>1, <4>2 DEF NoteSum
    <3>4. QED
      BY <1>4, <3>1, <3>2, <3>3 DEF AggregateObligations
<1>5. ASSUME NEW h \in Handlers, FetchAccount(h) PROVE TypeOK'
  <2>1. TaxAt(h) \in TaxTypes
    BY TaxAtType
  <2>2. QED
    <3>1. seen' \in [Handlers -> [pending : Nat, balance : Nat]]
      BY <1>5, <2>1 DEF FetchAccount
    <3>2. QED
      BY <1>5, <3>1 DEF FetchAccount
<1>6. ASSUME NEW e \in Events, EventVerified(e) PROVE TypeOK'
  BY <1>6 DEF EventVerified, MarkIfCovered, MarkStatus
<1>7. ASSUME NEW e \in Events, RecordShortfall(e) PROVE TypeOK'
  BY <1>7 DEF RecordShortfall, AlertIf, Alerts
<1>8. ASSUME NEW e \in Events, CheckExpected(e) PROVE TypeOK'
  BY <1>8 DEF CheckExpected, AlertIf, Alerts
<1>9. ASSUME NEW e \in Events, MarkProcessed(e) PROVE TypeOK'
  BY <1>9 DEF MarkProcessed, Forget, NotSeen, NoResult
<1>10. ASSUME NEW l \in Lodgments, OpenLodgment(l) PROVE TypeOK'
  BY <1>10 DEF OpenLodgment, Recorded
<1>11. ASSUME NEW l \in Lodgments, LodgmentVerified(l) PROVE TypeOK'
  <2>1. obligation' \in [Events -> {"none", "pending", "verified"}]
    BY <1>11 DEF LodgmentVerified, MarkIfCovered, MarkStatus
  <2>2. result' \in [Lodgments -> [TaxTypes -> [pending : Nat, short : BOOLEAN]]]
    BY <1>11 DEF LodgmentVerified, Covered
  <2>3. QED
    BY <1>11, <2>1, <2>2 DEF LodgmentVerified, NextTurn, LastTurn
<1>12. ASSUME NEW l \in Lodgments, QueueTransfer(l) PROVE TypeOK'
  <2>1. TaxAt(l) \in TaxTypes
    BY TaxAtType
  <2>2. Instruction(l, TaxAt(l)) \in Instructions
    BY <2>1 DEF Instruction, Instructions
  <2>3. QED
    BY <1>12, <2>2 DEF QueueTransfer, NextTurn, LastTurn
<1>13. ASSUME NEW l \in Lodgments, RequestPlan(l) PROVE TypeOK'
  BY <1>13 DEF RequestPlan
<1>14. ASSUME NEW l \in Lodgments, FinaliseLodgment(l) PROVE TypeOK'
  BY <1>14 DEF FinaliseLodgment
<1>15. ASSUME NEW l \in Lodgments, AuditLodgment(l) PROVE TypeOK'
  BY <1>15 DEF AuditLodgment, Forget, NotSeen, NoResult
<1>16. ASSUME NEW h \in Handlers, Fail(h) PROVE TypeOK'
  BY <1>16 DEF Fail, Forget, NotSeen, NoResult
<1>17. CASE UNCHANGED vars
  BY <1>17 DEF vars, local, history
<1>18. QED
  BY <1>1, <1>2, <1>3, <1>4, <1>5, <1>6, <1>7, <1>8, <1>9, <1>10, <1>11, <1>12,
     <1>13, <1>14, <1>15, <1>16, <1>17
     DEF Next, EventStep, LodgmentStep, AllOver
-----------------------------------------------------------------------------
(* Only a deposit changes an account, and it adds exactly its amount.      *)
LEMMA DepositMoney ==
  ASSUME IInv, NEW e \in Events, Deposit(e)
  PROVE  Money' /\ \A t \in TaxTypes : balance'[t] >= balance[t]
<1>1. e \notin deposited /\ deposited \in SUBSET Events
  BY DEF IInv, TypeOK, EventProgress, Deposit, Goto
<1>2. AmountOf[e] \in Nat /\ TaxOf[e] \in TaxTypes
  BY ObligationsAssumption DEF ObligationsAssumption
<1>3. balance \in [TaxTypes -> Nat]
  BY DEF IInv, TypeOK
<1>4. deposited' = deposited \cup {e}
  BY DEF Deposit
<1>5. \A t \in TaxTypes :
        balance'[t] = IF t = TaxOf[e] THEN balance[t] + AmountOf[e] ELSE balance[t]
  BY <1>3 DEF Deposit
<1>6. \A t \in TaxTypes : balance'[t] = Total(OfTax(deposited', t))
  <2> SUFFICES ASSUME NEW t \in TaxTypes
               PROVE  balance'[t] = Total(OfTax(deposited', t))
    OBVIOUS
  <2>1. balance[t] = Total(OfTax(deposited, t))
    BY DEF IInv, Money
  <2>2. CASE t = TaxOf[e]
    <3>1. OfTax(deposited', t) = OfTax(deposited, t) \cup {e}
      BY <1>4, <2>2 DEF OfTax
    <3>2. OfTax(deposited, t) \in SUBSET Events /\ e \notin OfTax(deposited, t)
      BY <1>1 DEF OfTax
    <3>3. Total(OfTax(deposited, t) \cup {e}) = Total(OfTax(deposited, t)) + AmountOf[e]
      BY <3>2, TotalAdd
    <3>4. QED
      BY <1>5, <2>1, <2>2, <3>1, <3>3
  <2>3. CASE t # TaxOf[e]
    <3>1. OfTax(deposited', t) = OfTax(deposited, t)
      BY <1>4, <2>3 DEF OfTax
    <3>2. QED
      BY <1>5, <2>1, <2>3, <3>1
  <2>4. QED
    BY <2>2, <2>3
<1>7. QED
  BY <1>2, <1>3, <1>5, <1>6 DEF Money

LEMMA MoneyStep ==
  ASSUME IInv, [Next]_vars
  PROVE  Money' /\ \A t \in TaxTypes : balance'[t] >= balance[t]
<1>1. CASE \E e \in Events : Deposit(e)
  BY <1>1, DepositMoney
<1>2. CASE UNCHANGED <<balance, deposited>>
  <2>1. \A t \in TaxTypes : balance[t] \in Nat
    BY DEF IInv, TypeOK
  <2>2. QED
    BY <1>2, <2>1 DEF IInv, Money
<1>3. QED
  BY <1>1, <1>2
     DEF Next, EventStep, LodgmentStep, AllOver, vars, db, history, local, RecordEvent,
         RecordObligation, AggregateObligations, FetchAccount, EventVerified,
         RecordShortfall, CheckExpected, MarkProcessed, OpenLodgment,
         LodgmentVerified, QueueTransfer, RequestPlan, FinaliseLodgment,
         AuditLodgment, Fail

(* The pending obligations of a tax type are covered by its account.       *)
LEMMA PendingCovered ==
  ASSUME IInv, NEW t \in TaxTypes
  PROVE  /\ Total(OfTax(Recorded, t)) <= balance[t]
         /\ Total(OfTax(Pending, t)) <= balance[t]
<1>1. OfTax(deposited, t) \in SUBSET Events
  BY DEF IInv, TypeOK, OfTax
<1>2. OfTax(Recorded, t) \in SUBSET OfTax(deposited, t)
  BY DEF IInv, EventProgress, OfTax, Recorded
<1>3. OfTax(Pending, t) \in SUBSET OfTax(deposited, t)
  BY DEF IInv, EventProgress, OfTax, Pending
<1>4. balance[t] = Total(OfTax(deposited, t))
  BY DEF IInv, Money
<1>5. QED
  BY <1>1, <1>2, <1>3, <1>4, TotalMonotone
-----------------------------------------------------------------------------
(* The handlers' control state and their rows move together.               *)
LEMMA EventProgressStep ==
  ASSUME IInv, [Next]_vars
  PROVE  EventProgress'
<1> USE DEF EventProgress, Goto, history
<1>1. /\ pc \in [Handlers -> HandlerStates]
      /\ event \in [Events -> {"none", "pending", "processed"}]
      /\ obligation \in [Events -> {"none", "pending", "verified"}]
      /\ Events \subseteq Handlers /\ Lodgments \subseteq Handlers
      /\ Events \cap Lodgments = {}
      /\ EventProgress
  BY ObligationsAssumption DEF IInv, TypeOK, Handlers, ObligationsAssumption
<1>2. ASSUME NEW e \in Events, RecordEvent(e) PROVE EventProgress'
  BY <1>1, <1>2 DEF RecordEvent
<1>3. ASSUME NEW e \in Events, Deposit(e) PROVE EventProgress'
  <2>1. pc[e] = "received" /\ deposited' = deposited \cup {e} /\ UNCHANGED <<event, obligation>>
    BY <1>3 DEF Deposit
  <2>2. \A x \in Handlers : pc'[x] = IF x = e THEN "deposited" ELSE pc[x]
    BY <1>1, <1>3 DEF Deposit
  <2>3. QED
    BY <1>1, <2>1, <2>2
<1>4. ASSUME NEW e \in Events, RecordObligation(e) PROVE EventProgress'
  BY <1>1, <1>4 DEF RecordObligation
<1>5. ASSUME NEW h \in Handlers, AggregateObligations(h) \/ FetchAccount(h)
      PROVE EventProgress'
  BY <1>1, <1>5 DEF AggregateObligations, FetchAccount, db, history
<1>6. ASSUME NEW h \in Handlers, MarkIfCovered(h)
      PROVE  \A e \in Events :
               /\ obligation'[e] = "none" <=> obligation[e] = "none"
               /\ obligation[e] = "verified" => obligation'[e] = "verified"
  BY <1>1, <1>6 DEF MarkIfCovered, MarkStatus, OfTax, Pending
<1>7. ASSUME NEW e \in Events, EventVerified(e) PROVE EventProgress'
  <2>1. Covered(e) /\ TaxAt(e) = TaxOf[e] /\ obligation[e] # "none"
    BY <1>1, <1>7 DEF EventVerified, IInv, ReadsCovered, TaxAt
  <2>2. obligation'[e] = "verified"
    BY <1>1, <1>7, <2>1
       DEF EventVerified, MarkIfCovered, MarkStatus, OfTax, Pending
  <2>3. QED
    BY <1>1, <1>6, <1>7, <2>2 DEF EventVerified
<1>8. ASSUME NEW e \in Events,
             RecordShortfall(e) \/ CheckExpected(e) \/ MarkProcessed(e)
      PROVE EventProgress'
  BY <1>1, <1>8 DEF RecordShortfall, CheckExpected, MarkProcessed
<1>9. ASSUME NEW l \in Lodgments, LodgmentVerified(l) PROVE EventProgress'
  BY <1>1, <1>6, <1>9 DEF LodgmentVerified
<1>10. ASSUME NEW l \in Lodgments,
              \/ OpenLodgment(l) \/ QueueTransfer(l) \/ RequestPlan(l)
              \/ FinaliseLodgment(l) \/ AuditLodgment(l)
       PROVE EventProgress'
  BY <1>1, <1>10 DEF OpenLodgment, QueueTransfer, RequestPlan, FinaliseLodgment,
     AuditLodgment, db, history
<1>11. ASSUME NEW h \in Handlers, Fail(h) PROVE EventProgress'
  BY <1>1, <1>11 DEF Fail, Over, db, history
<1>12. CASE UNCHANGED vars
  BY <1>1, <1>12 DEF vars, local, db, history
<1>13. QED
  BY <1>1, <1>2, <1>3, <1>4, <1>5, <1>7, <1>8, <1>9, <1>10, <1>11, <1>12
     DEF Next, EventStep, LodgmentStep, AllOver

(* What a handler has read stays covered whatever the others do.           *)
LEMMA ReadsCoveredStep ==
  ASSUME IInv, [Next]_vars
  PROVE  ReadsCovered'
<1>1. /\ pc \in [Handlers -> HandlerStates]
      /\ seen \in [Handlers -> [pending : Nat, balance : Nat]]
      /\ Events \subseteq Handlers /\ Lodgments \subseteq Handlers
      /\ \A h \in Handlers : balance[TaxAt(h)] \in Nat
      /\ \A h \in Handlers : TaxAt(h) \in TaxTypes
  BY TaxAtType DEF IInv, TypeOK, Handlers
<1>2. \A t \in TaxTypes : balance'[t] >= balance[t] /\ balance'[t] \in Nat
  BY MoneyStep, TypeStep DEF IInv, TypeOK
<1> DEFINE Read == {"compared", "checked", "alerted"}
           Holds(h) == /\ pc'[h] = "summed" => seen'[h].pending <= balance'[TaxAt(h)']
                       /\ pc'[h] \in Read => Covered(h)'
           Kept(h) == /\ pc'[h] = "summed" =>
                           pc[h] = "summed" /\ seen'[h] = seen[h] /\ TaxAt(h)' = TaxAt(h)
                      /\ pc'[h] \in Read => pc[h] \in Read /\ seen'[h] = seen[h]
<1>3. ASSUME NEW h \in Handlers, Kept(h) PROVE Holds(h)
  <2>1. CASE pc'[h] = "summed"
    <3>1. pc[h] = "summed" /\ seen'[h] = seen[h] /\ TaxAt(h)' = TaxAt(h)
      BY <1>3, <2>1
    <3>2. seen[h].pending <= balance[TaxAt(h)]
      BY <3>1 DEF IInv, ReadsCovered
    <3>3. seen[h].pending \in Nat
      BY <1>1
    <3>4. seen'[h].pending <= balance'[TaxAt(h)']
      BY <1>1, <1>2, <3>1, <3>2, <3>3
    <3>5. QED
      BY <2>1, <3>4
  <2>2. CASE pc'[h] \in Read
    <3>1. pc[h] \in Read /\ seen'[h] = seen[h]
      BY <1>3, <2>2
    <3>2. Covered(h)
      BY <3>1 DEF IInv, ReadsCovered
    <3>3. Covered(h)'
      BY <3>1, <3>2 DEF Covered
    <3>4. QED
      BY <2>2, <3>3
  <2>3. QED
    BY <2>1, <2>2
<1>4. ASSUME NEW g \in Handlers, AggregateObligations(g) PROVE \A h \in Handlers : Holds(h)
  <2>1. \A h \in Handlers \ {g} : Kept(h)
    BY <1>1, <1>4 DEF AggregateObligations, Goto, TaxAt
  <2>2. pc'[g] = "summed" /\ TaxAt(g)' = TaxAt(g) /\ balance' = balance
    BY <1>1, <1>4 DEF AggregateObligations, Goto, TaxAt, db, history
  <2>3. seen'[g].pending = Total(OfTax(Pending, TaxAt(g)))
    BY <1>1, <1>4 DEF AggregateObligations
  <2>4. seen'[g].pending <= balance[TaxAt(g)]
    BY <1>1, <2>3, PendingCovered
  <2>5. Holds(g)
    BY <2>2, <2>4
  <2>6. QED
    BY <1>3, <2>1, <2>5
<1>5. ASSUME NEW g \in Handlers, FetchAccount(g) PROVE \A h \in Handlers : Holds(h)
  <2>1. \A h \in Handlers \ {g} : Kept(h)
    BY <1>1, <1>5 DEF FetchAccount, Goto, TaxAt
  <2>2. pc[g] = "summed" /\ pc'[g] = "compared"
    BY <1>1, <1>5 DEF FetchAccount, Goto
  <2>3. seen'[g].pending = seen[g].pending /\ seen'[g].balance = balance[TaxAt(g)]
    BY <1>1, <1>5 DEF FetchAccount
  <2>4. seen[g].pending <= balance[TaxAt(g)]
    BY <2>2 DEF IInv, ReadsCovered
  <2>5. seen[g].pending \in Nat /\ balance[TaxAt(g)] \in Nat
    BY <1>1
  <2>6. Covered(g)'
    BY <2>3, <2>4, <2>5 DEF Covered
  <2>7. Holds(g)
    BY <2>2, <2>6
  <2>8. QED
    BY <1>3, <2>1, <2>7
<1>6. ASSUME NEW e \in Events,
             \/ RecordEvent(e) \/ Deposit(e) \/ RecordObligation(e)
             \/ EventVerified(e) \/ RecordShortfall(e) \/ CheckExpected(e)
      PROVE  \A h \in Handlers : Holds(h)
  <2>1. \A h \in Handlers : Kept(h)
    BY <1>1, <1>6 DEF RecordEvent, Deposit, RecordObligation, EventVerified,
       RecordShortfall, CheckExpected, Goto, TaxAt
  <2>2. QED
    BY <1>3, <2>1
<1>7. ASSUME NEW l \in Lodgments,
             \/ OpenLodgment(l) \/ LodgmentVerified(l) \/ QueueTransfer(l)
             \/ RequestPlan(l) \/ FinaliseLodgment(l)
      PROVE  \A h \in Handlers : Holds(h)
  <2>1. turn \in [Lodgments -> 1..2]
    BY DEF IInv, TypeOK
  <2>2. pc'[l] \notin Read \cup {"summed"}
    BY <1>1, <1>7 DEF OpenLodgment, LodgmentVerified, QueueTransfer, RequestPlan,
       FinaliseLodgment, Goto
  <2>3. \A h \in Handlers \ {l} :
          pc'[h] = pc[h] /\ seen'[h] = seen[h] /\ TaxAt(h)' = TaxAt(h)
    BY <1>1, <1>7, <2>1 DEF OpenLodgment, LodgmentVerified, QueueTransfer, RequestPlan,
       FinaliseLodgment, Goto, TaxAt, NextTurn, Handlers
  <2>4. QED
    BY <1>3, <2>2, <2>3
<1>8. ASSUME NEW g \in Handlers, pc'[g] \in {"done", "failed"}, Forget(g),
             \A h \in Handlers \ {g} : pc'[h] = pc[h]
      PROVE  \A h \in Handlers : Holds(h)
  <2>1. \A h \in Handlers \ {g} : seen'[h] = seen[h]
    BY <1>1, <1>8 DEF Forget
  <2>2. \A h \in Handlers \ {g} : TaxAt(h)' = TaxAt(h)
    BY <1>8 DEF Forget, TaxAt, Handlers
  <2>3. QED
    BY <1>3, <1>8, <2>1, <2>2
<1>9. ASSUME NEW g \in Handlers,
             MarkProcessed(g) \/ AuditLodgment(g) \/ Fail(g)
      PROVE  \A h \in Handlers : Holds(h)
  BY <1>1, <1>8, <1>9 DEF MarkProcessed, AuditLodgment, Fail, Goto
<1>10. ASSUME UNCHANGED vars PROVE \A h \in Handlers : Holds(h)
  <2>1. pc' = pc /\ seen' = seen /\ turn' = turn
    BY <1>10 DEF vars, local, history
  <2>2. \A h \in Handlers : TaxAt(h)' = TaxAt(h)
    BY <2>1 DEF TaxAt
  <2>3. \A h \in Handlers : Kept(h)
    BY <2>1, <2>2
  <2>4. QED
    BY <1>3, <2>3
<1> HIDE DEF Holds, Kept
<1>11. \A h \in Handlers : Holds(h)
  <2>1. ASSUME NEW e \in Events, EventStep(e) PROVE \A h \in Handlers : Holds(h)
    BY <1>1, <1>4, <1>5, <1>6, <1>9, <2>1 DEF EventStep
  <2>2. ASSUME NEW l \in Lodgments, LodgmentStep(l) PROVE \A h \in Handlers : Holds(h)
    BY <1>1, <1>4, <1>5, <1>7, <1>9, <2>2 DEF LodgmentStep
  <2>3. QED
    BY <1>9, <1>10, <2>1, <2>2 DEF Next, AllOver
<1>12. QED
  BY <1>11 DEF ReadsCovered, Holds

(* No shortfall is ever recorded.                                          *)
LEMMA NeverShortStep ==
  ASSUME IInv, [Next]_vars
  PROVE  NeverShort'
<1> USE DEF NeverShort, NoShortfall, Failed
<1>1. /\ lodgment \in [Lodgments -> {"none", "in_progress", "success", "failed"}]
      /\ result \in [Lodgments -> [TaxTypes -> [pending : Nat, short : BOOLEAN]]]
      /\ Lodgments \subseteq Handlers /\ Events \subseteq Handlers
      /\ NeverShort
  BY DEF IInv, TypeOK, Handlers
<1>2. ASSUME NEW e \in Events, RecordShortfall(e) PROVE NeverShort'
  <2>1. Covered(e)
    BY <1>1, <1>2 DEF RecordShortfall, Goto, IInv, ReadsCovered
  <2>2. QED
    BY <1>1, <1>2, <2>1 DEF RecordShortfall, AlertIf
<1>3. ASSUME NEW e \in Events, CheckExpected(e) PROVE NeverShort'
  BY <1>1, <1>3 DEF CheckExpected, AlertIf
<1>4. ASSUME NEW l \in Lodgments, OpenLodgment(l) PROVE NeverShort'
  BY <1>1, <1>4 DEF OpenLodgment
<1>5. ASSUME NEW l \in Lodgments, LodgmentVerified(l) PROVE NeverShort'
  <2>1. Covered(l)
    BY <1>1, <1>5 DEF LodgmentVerified, Goto, IInv, ReadsCovered
  <2>2. \A m \in Lodgments, t \in TaxTypes : ~result'[m][t].short
    BY <1>1, <1>5, <2>1 DEF LodgmentVerified
  <2>3. QED
    BY <1>1, <1>5, <2>2 DEF LodgmentVerified
<1>6. ASSUME NEW l \in Lodgments, RequestPlan(l) \/ FinaliseLodgment(l)
      PROVE  NeverShort'
  BY <1>1, <1>6 DEF RequestPlan, FinaliseLodgment
<1>7. ASSUME NEW h \in Handlers, Forget(h), UNCHANGED <<alerts, plans, lodgment>>
      PROVE  NeverShort'
  BY <1>1, <1>7 DEF Forget, NoResult
<1>8. CASE UNCHANGED <<alerts, plans, lodgment, result>>
  BY <1>1, <1>8
<1>9. QED
  BY <1>1, <1>2, <1>3, <1>4, <1>5, <1>6, <1>7, <1>8
     DEF Next, EventStep, LodgmentStep, AllOver, vars, db, history, local, RecordEvent,
         Deposit, RecordObligation, AggregateObligations, FetchAccount,
         EventVerified, MarkProcessed, QueueTransfer, AuditLodgment, Fail
-----------------------------------------------------------------------------
(* The invariant is inductive. *)
LEMMA IInvStep == IInv /\ [Next]_vars => IInv'
  BY TypeStep, MoneyStep, EventProgressStep, ReadsCoveredStep, NeverShortStep DEF IInv

THEOREM IInvAlways == Spec => []IInv
  BY InitIInv, IInvStep, PTL DEF Spec

(* The tables and the handlers' local variables keep their types.          *)
THEOREM TypeCorrect == Spec => []TypeOK
<1>1. IInv => TypeOK
  BY DEF IInv
<1>2. QED
  BY <1>1, IInvAlways, PTL

(* Every account covers whatever was recorded against it, at any moment    *)
(* and whichever handlers died: handleIntegrationEvent deposits first.     *)
THEOREM SecuredAlways == Spec => []Secured
<1>1. ASSUME IInv PROVE Secured
  <2>1. \A t \in TaxTypes : balance[t] \in Nat /\ Total(OfTax(Recorded, t)) \in Nat
    <3>1. \A t \in TaxTypes : OfTax(Recorded, t) \in SUBSET Events
      BY DEF OfTax, Recorded
    <3>2. QED
      BY <1>1, <3>1, CentsFinite DEF IInv, TypeOK
  <2>2. QED
    BY <1>1, <2>1, PendingCovered DEF Secured
<1>2. QED
  BY <1>1, IInvAlways, PTL

(* verifyObligations never finds a shortfall, although it reads the sum    *)
(* and the balance by two statements; no lodgment is refused.              *)
THEOREM NoShortfallAlways == Spec => []NoShortfall
<1>1. IInv => NoShortfall
  BY DEF IInv, NeverShort
<1>2. QED
  BY <1>1, IInvAlways, PTL

(* An event marked processed has its money deposited and its obligation    *)
(* verified.                                                               *)
THEOREM ProcessedIsVerifiedAlways == Spec => []ProcessedIsVerified
<1>1. IInv => ProcessedIsVerified
  BY DEF IInv, EventProgress, ProcessedIsVerified
<1>2. QED
  BY <1>1, IInvAlways, PTL
-----------------------------------------------------------------------------
VerifiedOf(l, t) ==
  \A e \in owed[l] : TaxOf[e] = t => obligation[e] = "verified"
Instructed(l, t) == \E i \in transfers : i.lodgment = l /\ i.tax = t

(* No obligation is on record before its handler has written it.           *)
Unwritten ==
  \A e \in Events : pc[e] \in {"idle", "received", "deposited"} => obligation[e] = "none"

(* The loop of a lodgment has seen to the tax types before its index, for  *)
(* the verification and then for the instructions.                         *)
Progress(l) ==
  /\ pc[l] = "idle" => turn[l] = 1
  /\ \A e \in owed[l] : obligation[e] # "none"
  /\ pc[l] \in {"verify", "summed", "compared"} /\ turn[l] = 2 => VerifiedOf(l, "PAYGW")
  /\ pc[l] \in {"queue", "plan", "finalise", "audit"} \/ lodgment[l] = "success" =>
       VerifiedOf(l, "PAYGW") /\ VerifiedOf(l, "GST")
  /\ pc[l] = "queue" /\ turn[l] = 2 => Instructed(l, "PAYGW")
  /\ pc[l] \in {"plan", "finalise", "audit"} \/ lodgment[l] = "success" =>
       Instructed(l, "PAYGW") /\ Instructed(l, "GST")

(* What a lodgment has read and will ask for is in the account.            *)
Funded(l) ==
  /\ pc[l] = "compared" => seen[l].balance <= balance[TaxAt(l)]
  /\ \A t \in TaxTypes : result[l][t].pending <= balance[t]
InstructionsFunded == \A i \in transfers : i.amount <= balance[i.tax]

LInv ==
  /\ IInv /\ Unwritten /\ InstructionsFunded
  /\ \A l \in Lodgments : Progress(l) /\ Funded(l)
-----------------------------------------------------------------------------
(* Rows and balances only grow. *)
LEMMA MarkKeeps ==
  ASSUME IInv, NEW h \in Handlers, MarkIfCovered(h)
  PROVE  \A e \in Events :
           /\ obligation'[e] = "none" <=> obligation[e] = "none"
           /\ obligation[e] = "verified" => obligation'[e] = "verified"
  BY DEF MarkIfCovered, MarkStatus, OfTax, Pending, IInv, TypeOK

Grows ==
  /\ \A e \in Events :
       /\ obligation[e] # "none" => obligation'[e] # "none"
       /\ obligation[e] = "verified" => obligation'[e] = "verified"
  /\ \A t \in TaxTypes : balance[t] <= balance'[t]
  /\ transfers \subseteq transfers'

LEMMA StepGrows ==
  ASSUME IInv, Unwritten, [Next]_vars
  PROVE  Grows /\ Unwritten'
<1>1. /\ pc \in [Handlers -> HandlerStates]
      /\ obligation \in [Events -> {"none", "pending", "verified"}]
      /\ balance \in [TaxTypes -> Nat]
      /\ Events \subseteq Handlers /\ Lodgments \subseteq Handlers
      /\ Events \cap Lodgments = {}
  BY ObligationsAssumption DEF IInv, TypeOK, Handlers, ObligationsAssumption
<1>2. ASSUME NEW e \in Events, RecordObligation(e) PROVE Grows /\ Unwritten'
  BY <1>1, <1>2 DEF RecordObligation, Goto, Unwritten, Grows
<1>3. ASSUME NEW e \in Events, Deposit(e) PROVE Grows /\ Unwritten'
  <2>1. AmountOf[e] \in Nat
    BY ObligationsAssumption DEF ObligationsAssumption
  <2>2. \A t \in TaxTypes :
          balance'[t] = IF t = TaxOf[e] THEN balance[t] + AmountOf[e] ELSE balance[t]
    BY <1>1, <1>3 DEF Deposit
  <2>3. \A t \in TaxTypes : balance[t] <= balance'[t]
    <3> SUFFICES ASSUME NEW t \in TaxTypes PROVE balance[t] <= balance'[t]
      OBVIOUS
    <3>1. balance[t] \in Nat
      BY <1>1
    <3>2. balance'[t] = balance[t] + AmountOf[e] \/ balance'[t] = balance[t]
      BY <2>2
    <3>3. QED
      BY ONLY <2>1, <3>1, <3>2
  <2>4. QED
    BY <1>1, <1>3, <2>3 DEF Deposit, Goto, Unwritten, Grows
<1>4. ASSUME NEW h \in Handlers, EventVerified(h) \/ LodgmentVerified(h)
      PROVE  Grows /\ Unwritten'
  <2>1. MarkIfCovered(h) /\ UNCHANGED <<balance, transfers>>
    BY <1>4 DEF EventVerified, LodgmentVerified
  <2>2. \A e \in Events : pc'[e] \in {"idle", "received", "deposited"} => pc'[e] = pc[e]
    BY <1>1, <1>4 DEF EventVerified, LodgmentVerified, Goto
  <2>3. QED
    BY <1>1, <2>1, <2>2, MarkKeeps DEF Unwritten, Grows
<1>5. ASSUME UNCHANGED <<obligation, balance>>, transfers \subseteq transfers',
             \A e \in Events : pc'[e] \in {"idle", "received", "deposited"} =>
               pc[e] \in {"idle", "received", "deposited"}
      PROVE  Grows /\ Unwritten'
  BY <1>1, <1>5 DEF Unwritten, Grows
<1>6. ASSUME NEW h \in Handlers,
             \/ RecordEvent(h) \/ AggregateObligations(h) \/ FetchAccount(h)
             \/ RecordShortfall(h) \/ CheckExpected(h) \/ MarkProcessed(h)
             \/ OpenLodgment(h) /\ h \in Lodgments
             \/ QueueTransfer(h) \/ RequestPlan(h) \/ FinaliseLodgment(h)
             \/ AuditLodgment(h) \/ Fail(h)
      PROVE  Grows /\ Unwritten'
  <2>1. UNCHANGED <<obligation, balance>> /\ transfers \subseteq transfers'
    BY <1>6 DEF RecordEvent, AggregateObligations, FetchAccount, RecordShortfall,
       CheckExpected, MarkProcessed, OpenLodgment, QueueTransfer, RequestPlan,
       FinaliseLodgment, AuditLodgment, Fail, db, history
  <2>2. \A e \in Events : pc'[e] \in {"idle", "received", "deposited"} =>
          pc[e] \in {"idle", "received", "deposited"}
    BY <1>1, <1>6 DEF RecordEvent, AggregateObligations, FetchAccount, RecordShortfall,
       CheckExpected, MarkProcessed, OpenLodgment, QueueTransfer, RequestPlan,
       FinaliseLodgment, AuditLodgment, Fail, Goto
  <2>3. QED
    BY <1>5, <2>1, <2>2
<1>7. CASE UNCHANGED vars
  BY <1>5, <1>7 DEF vars, db, history, local
<1>8. QED
  BY <1>1, <1>2, <1>3, <1>4, <1>6, <1>7 DEF Next, EventStep, LodgmentStep, AllOver
-----------------------------------------------------------------------------
(* A lodgment that does not move stays where it is while the others add.   *)
Still(l) ==
  /\ pc'[l] = pc[l] /\ turn'[l] = turn[l] /\ seen'[l] = seen[l]
  /\ result'[l] = result[l] /\ lodgment'[l] = lodgment[l] /\ owed'[l] = owed[l]

LEMMA StillProgresses ==
  ASSUME IInv, NEW l \in Lodgments, Grows, Still(l), Progress(l)
  PROVE  Progress(l)'
<1>1. owed[l] \subseteq Events
  BY DEF IInv, TypeOK
<1>2. \A t : VerifiedOf(l, t) => VerifiedOf(l, t)'
  BY <1>1 DEF Grows, Still, VerifiedOf
<1>3. \A t : Instructed(l, t) => Instructed(l, t)'
  BY DEF Grows, Instructed
<1>4. QED
  BY <1>1, <1>2, <1>3 DEF Progress, Still, Grows

LEMMA StillFunded ==
  ASSUME IInv, IInv', NEW l \in Lodgments, Grows, Still(l), Funded(l)
  PROVE  Funded(l)'
<1>1. TaxAt(l)' = TaxAt(l)
  BY ObligationsAssumption DEF Still, TaxAt, ObligationsAssumption
<1>2. TaxAt(l) \in TaxTypes
  BY TaxAtType DEF IInv, Handlers
<1>3. /\ \A t \in TaxTypes : balance[t] \in Nat /\ balance'[t] \in Nat
      /\ \A t \in TaxTypes : result[l][t].pending \in Nat
      /\ seen[l].balance \in Nat
  BY DEF IInv, TypeOK, Handlers
<1>4. QED
  BY <1>1, <1>2, <1>3 DEF Funded, Still, Grows

LEMMA OthersStill ==
  ASSUME IInv, NEW h \in Handlers, NEW l \in Lodgments, l # h,
         \/ h \in Events /\ EventStep(h)
         \/ h \in Lodgments /\ LodgmentStep(h)
         \/ Fail(h)
  PROVE  Still(l)
<1>1. /\ l \in Handlers /\ pc \in [Handlers -> HandlerStates]
      /\ seen \in [Handlers -> [pending : Nat, balance : Nat]]
      /\ turn \in [Lodgments -> 1..2]
      /\ result \in [Lodgments -> [TaxTypes -> [pending : Nat, short : BOOLEAN]]]
      /\ lodgment \in [Lodgments -> {"none", "in_progress", "success", "failed"}]
      /\ owed \in [Lodgments -> SUBSET Events]
  BY DEF IInv, TypeOK, Handlers
<1>2. CASE h \in Events /\ EventStep(h)
  BY <1>1, <1>2
     DEF EventStep, RecordEvent, Deposit, RecordObligation, AggregateObligations,
         FetchAccount, EventVerified, RecordShortfall, CheckExpected, MarkProcessed,
         Goto, Forget, db, history, Still
<1>3. CASE h \in Lodgments /\ LodgmentStep(h)
  BY <1>1, <1>3
     DEF LodgmentStep, OpenLodgment, AggregateObligations, FetchAccount,
         LodgmentVerified, QueueTransfer, RequestPlan, FinaliseLodgment, AuditLodgment,
         NextTurn, Goto, Forget, db, history, Still
<1>4. CASE Fail(h)
  BY <1>1, <1>4 DEF Fail, Forget, db, history, Still
<1>5. QED
  BY <1>2, <1>3, <1>4
-----------------------------------------------------------------------------
(* The verification of the tax type at the index finds it covered, so it   *)
(* leaves none of the obligations on record for it pending.                *)
LEMMA VerifiedStep ==
  ASSUME LInv, NEW l \in Lodgments, LodgmentVerified(l), Grows
  PROVE  Progress(l)'
<1>1. /\ l \in Handlers /\ l \notin Events /\ owed[l] \in SUBSET Events
      /\ obligation \in [Events -> {"none", "pending", "verified"}]
      /\ turn \in [Lodgments -> 1..2] /\ pc \in [Handlers -> HandlerStates]
      /\ IInv /\ Progress(l)
  BY ObligationsAssumption DEF LInv, IInv, TypeOK, Handlers, ObligationsAssumption
<1>2. /\ pc[l] = "compared"
      /\ pc' = [pc EXCEPT ![l] = IF turn[l] = 2 THEN "queue" ELSE "verify"]
      /\ turn' = [turn EXCEPT ![l] = 3 - turn[l]]
      /\ UNCHANGED <<lodgment, transfers, owed>>
  BY DEF LodgmentVerified, Goto, LastTurn, NextTurn, history
<1>3. Covered(l)
  BY <1>1, <1>2 DEF IInv, ReadsCovered
<1>4. \A t : t = TaxAt(l) => VerifiedOf(l, t)'
  BY <1>1, <1>2, <1>3
     DEF LodgmentVerified, MarkIfCovered, MarkStatus, OfTax, Pending, VerifiedOf, Progress
<1>5. \A t : VerifiedOf(l, t) => VerifiedOf(l, t)'
  BY <1>1, <1>2 DEF Grows, VerifiedOf
<1>6. \A t : Instructed(l, t) => Instructed(l, t)'
  BY <1>2 DEF Instructed
<1>7. TaxAt(l) = IF turn[l] = 2 THEN "GST" ELSE "PAYGW"
  BY <1>1 DEF TaxAt, TaxOrder
<1>8. turn'[l] = (IF turn[l] = 2 THEN 1 ELSE 2)
      /\ pc'[l] = (IF turn[l] = 2 THEN "queue" ELSE "verify")
      /\ \A e \in owed'[l] : obligation'[e] # "none"
  BY <1>1, <1>2 DEF Progress, Grows
<1>9. QED
  BY <1>1, <1>2, <1>4, <1>5, <1>6, <1>7, <1>8 DEF Progress

LEMMA QueueStep ==
  ASSUME LInv, NEW l \in Lodgments, QueueTransfer(l)
  PROVE  Progress(l)'
<1>1. /\ l \in Handlers /\ l \notin Events
      /\ turn \in [Lodgments -> 1..2] /\ pc \in [Handlers -> HandlerStates]
      /\ ~Failed(l) /\ Progress(l)
  BY ObligationsAssumption
     DEF LInv, IInv, NeverShort, TypeOK, Handlers, ObligationsAssumption
<1>2. /\ pc[l] = "queue"
      /\ pc' = [pc EXCEPT ![l] = IF turn[l] = 2 THEN "plan" ELSE "queue"]
      /\ turn' = [turn EXCEPT ![l] = 3 - turn[l]]
      /\ transfers' = transfers \cup {Instruction(l, TaxAt(l))}
      /\ UNCHANGED <<obligation, lodgment, owed>>
  BY <1>1 DEF QueueTransfer, Goto, LastTurn, NextTurn, history
<1>3. \A t : t = TaxAt(l) => Instructed(l, t)'
  <2> SUFFICES ASSUME NEW t, t = TaxAt(l)
               PROVE  \E i \in transfers' : i.lodgment = l /\ i.tax = t
    BY DEF Instructed
  <2>1. Instruction(l, TaxAt(l)) \in transfers'
    BY <1>2
  <2>2. QED
    BY <2>1 DEF Instruction
<1>4. \A t : Instructed(l, t) => Instructed(l, t)'
  BY <1>2 DEF Instructed
<1>5. \A t : VerifiedOf(l, t) => VerifiedOf(l, t)'
  BY <1>2 DEF VerifiedOf
<1>6. TaxAt(l) = IF turn[l] = 2 THEN "GST" ELSE "PAYGW"
  BY <1>1 DEF TaxAt, TaxOrder
<1>7. turn'[l] = (IF turn[l] = 2 THEN 1 ELSE 2)
      /\ pc'[l] = (IF turn[l] = 2 THEN "plan" ELSE "queue")
  BY <1>1, <1>2
<1>8. QED
  BY <1>1, <1>2, <1>3, <1>4, <1>5, <1>6, <1>7 DEF Progress

(* The other steps of a lodgment write no row of the kinds it counts.      *)
LEMMA OwnProgress ==
  ASSUME LInv, TypeOK', Grows, NEW l \in Lodgments, LodgmentStep(l) \/ Fail(l)
  PROVE  Progress(l)'
<1>1. /\ l \in Handlers /\ pc \in [Handlers -> HandlerStates]
      /\ turn \in [Lodgments -> 1..2] /\ owed \in [Lodgments -> SUBSET Events]
      /\ lodgment \in [Lodgments -> {"none", "in_progress", "success", "failed"}]
      /\ IInv /\ Progress(l)
  BY DEF LInv, IInv, TypeOK, Handlers
<1>2. CASE OpenLodgment(l)
  <2>1. /\ pc[l] = "idle" /\ pc'[l] = "verify" /\ turn' = turn
        /\ lodgment'[l] = "in_progress"
        /\ owed'[l] = Recorded /\ obligation' = obligation
    BY <1>1, <1>2 DEF OpenLodgment, Goto
  <2>2. QED
    BY <1>1, <2>1 DEF Progress, Recorded
<1>3. CASE AggregateObligations(l) \/ FetchAccount(l)
  <2>1. /\ pc[l] \in {"verify", "summed"} /\ pc'[l] \in {"summed", "compared"}
        /\ UNCHANGED <<db, turn, owed>>
    BY <1>1, <1>3 DEF AggregateObligations, FetchAccount, Goto, history
  <2>2. QED
    BY <1>1, <2>1 DEF db, Progress, VerifiedOf, Instructed
<1>4. CASE LodgmentVerified(l)
  BY <1>4, VerifiedStep
<1>5. CASE QueueTransfer(l)
  BY <1>5, QueueStep
<1>6. CASE RequestPlan(l) \/ FinaliseLodgment(l) \/ AuditLodgment(l) \/ Fail(l)
  <2>1. /\ \/ pc[l] \in {"plan", "finalise", "audit"}
           \/ pc'[l] = "failed" /\ lodgment'[l] = lodgment[l]
        /\ pc'[l] \in {"finalise", "audit", "done", "failed"}
        /\ UNCHANGED <<obligation, transfers, owed>>
    BY <1>1, <1>6
       DEF RequestPlan, FinaliseLodgment, AuditLodgment, Fail, Goto, db, history
  <2>2. (\A t : VerifiedOf(l, t)' = VerifiedOf(l, t))
        /\ (\A t : Instructed(l, t)' = Instructed(l, t))
    BY <2>1 DEF VerifiedOf, Instructed
  <2>3. QED
    BY <1>1, <2>1, <2>2 DEF Progress
<1>7. QED
  BY <1>2, <1>3, <1>4, <1>5, <1>6 DEF LodgmentStep

LEMMA OwnFunded ==
  ASSUME LInv, IInv', Grows, NEW l \in Lodgments, LodgmentStep(l) \/ Fail(l)
  PROVE  Funded(l)'
<1>1. /\ l \in Handlers /\ l \notin Events /\ pc \in [Handlers -> HandlerStates]
      /\ seen \in [Handlers -> [pending : Nat, balance : Nat]]
      /\ result \in [Lodgments -> [TaxTypes -> [pending : Nat, short : BOOLEAN]]]
      /\ \A t \in TaxTypes : balance[t] \in Nat /\ balance'[t] \in Nat
      /\ \A t \in TaxTypes : balance[t] <= balance'[t]
      /\ IInv /\ Funded(l) /\ TaxAt(l) \in TaxTypes
  BY TaxAtType, ObligationsAssumption
     DEF LInv, IInv, TypeOK, Handlers, ObligationsAssumption, Grows
<1>2. CASE FetchAccount(l)
  <2>1. /\ pc'[l] = "compared" /\ seen'[l].balance = balance[TaxAt(l)]
        /\ balance' = balance /\ result' = result /\ TaxAt(l)' = TaxAt(l)
    BY <1>1, <1>2 DEF FetchAccount, Goto, db, history, TaxAt
  <2>2. QED
    BY <1>1, <2>1 DEF Funded
<1>3. CASE LodgmentVerified(l)
  <2>1. /\ pc[l] = "compared" /\ pc'[l] # "compared" /\ balance' = balance
        /\ result' = [result EXCEPT ![l][TaxAt(l)] =
                        [pending |-> seen[l].pending, short |-> ~Covered(l)]]
    BY <1>1, <1>3 DEF LodgmentVerified, Goto
  <2>2. seen[l].pending <= balance[TaxAt(l)]
    BY <1>1, <2>1 DEF IInv, ReadsCovered, Covered, Funded
  <2>3. \A t \in TaxTypes : result'[l][t].pending =
          IF t = TaxAt(l) THEN seen[l].pending ELSE result[l][t].pending
    BY <1>1, <2>1
  <2>4. QED
    BY <1>1, <2>1, <2>2, <2>3 DEF Funded
<1>4. CASE AuditLodgment(l) \/ Fail(l)
  <2>1. pc'[l] # "compared" /\ result'[l] = NoResult
    BY <1>1, <1>4 DEF AuditLodgment, Fail, Goto, Forget
  <2>2. QED
    BY <1>1, <2>1 DEF Funded, NoResult
<1>5. CASE \/ OpenLodgment(l) \/ AggregateObligations(l) \/ QueueTransfer(l)
           \/ RequestPlan(l) \/ FinaliseLodgment(l)
  <2>1. pc'[l] # "compared" /\ result' = result
    BY <1>1, <1>5
       DEF OpenLodgment, AggregateObligations, QueueTransfer, RequestPlan,
           FinaliseLodgment, Goto
  <2>2. QED
    BY <1>1, <2>1 DEF Funded
<1>6. QED
  BY <1>2, <1>3, <1>4, <1>5 DEF LodgmentStep

LEMMA InstructionsStep ==
  ASSUME LInv, IInv', Grows, [Next]_vars
  PROVE  InstructionsFunded'
<1>1. /\ transfers \subseteq Instructions
      /\ \A t \in TaxTypes : balance[t] \in Nat /\ balance'[t] \in Nat
      /\ IInv
  BY DEF LInv, IInv, TypeOK
<1>2. ASSUME NEW l \in Lodgments, QueueTransfer(l) PROVE InstructionsFunded'
  <2>1. /\ transfers' \subseteq transfers \cup {Instruction(l, TaxAt(l))}
        /\ balance' = balance
    BY <1>2 DEF QueueTransfer
  <2>2. Instruction(l, TaxAt(l)).amount <= balance[Instruction(l, TaxAt(l)).tax]
    BY <1>1, TaxAtType DEF LInv, IInv, Funded, Instruction, Handlers
  <2>3. QED
    BY <2>1, <2>2 DEF LInv, InstructionsFunded
<1>3. ASSUME UNCHANGED transfers PROVE InstructionsFunded'
  <2> SUFFICES ASSUME NEW i \in transfers PROVE i.amount <= balance'[i.tax]
    BY <1>3 DEF InstructionsFunded
  <2>1. i.amount \in Nat /\ i.tax \in TaxTypes
    BY <1>1 DEF Instructions
  <2>2. i.amount <= balance[i.tax] /\ balance[i.tax] <= balance'[i.tax]
    BY <2>1 DEF LInv, InstructionsFunded, Grows
  <2>3. QED
    BY <1>1, <2>1, <2>2
<1>4. QED
  BY <1>2, <1>3
     DEF Next, EventStep, LodgmentStep, AllOver, vars, db, history, RecordEvent, Deposit,
         RecordObligation, AggregateObligations, FetchAccount, EventVerified,
         RecordShortfall, CheckExpected, MarkProcessed, OpenLodgment, LodgmentVerified,
         RequestPlan, FinaliseLodgment, AuditLodgment, Fail
-----------------------------------------------------------------------------
(* LInv is inductive. *)
LEMMA LInvStep == LInv /\ [Next]_vars => LInv'
<1> SUFFICES ASSUME LInv, [Next]_vars PROVE LInv'
  OBVIOUS
<1>1. IInv /\ IInv' /\ Grows /\ Unwritten' /\ InstructionsFunded'
  BY IInvStep, StepGrows, InstructionsStep DEF LInv
<1>2. ASSUME NEW l \in Lodgments PROVE Progress(l)' /\ Funded(l)'
  <2>1. CASE Still(l)
    BY <1>1, <1>2, <2>1, StillProgresses, StillFunded DEF LInv
  <2>2. CASE LodgmentStep(l) \/ Fail(l)
    BY <1>1, <1>2, <2>2, OwnProgress, OwnFunded DEF IInv
  <2>3. CASE UNCHANGED vars
    BY <2>1, <2>3 DEF vars, local, db, history, Still
  <2>4. CASE Next /\ ~(LodgmentStep(l) \/ Fail(l)) /\ ~UNCHANGED vars
    <3>1. PICK h \in Handlers :
            \/ h \in Events /\ EventStep(h)
            \/ h \in Lodgments /\ LodgmentStep(h)
            \/ Fail(h)
      BY <2>4 DEF Next, AllOver, Handlers
    <3>2. l # h
      BY <2>4, <3>1, ObligationsAssumption DEF ObligationsAssumption
    <3>3. QED
      BY <1>1, <1>2, <2>1, <3>1, <3>2, OthersStill
  <2>5. QED
    BY <2>2, <2>3, <2>4
<1>3. QED
  BY <1>1, <1>2 DEF LInv

LEMMA LInvInit == Init => LInv
<1> SUFFICES ASSUME Init PROVE LInv
  OBVIOUS
<1>1. \A l \in Lodgments : Progress(l) /\ Funded(l)
  BY DEF Init, Progress, Funded, NoResult, Handlers
<1>2. QED
  BY <1>1, InitIInv DEF LInv, Init, Unwritten, InstructionsFunded

LEMMA LInvAlways == Spec => []LInv
  BY LInvInit, LInvStep, PTL DEF Spec

(* A lodgment that succeeds leaves none of the obligations pending that    *)
(* were on record when it began, whatever else arrives and fails meanwhile *)
(* and however many lodgments overlap.                                     *)
THEOREM OwedVerifiedAlways == Spec => []OwedVerified
<1>1. LInv => OwedVerified
  <2> SUFFICES ASSUME LInv, NEW l \in Lodgments, lodgment[l] = "success",
                      NEW e \in owed[l]
               PROVE  obligation[e] = "verified"
    BY DEF OwedVerified
  <2>1. TaxOf[e] \in TaxTypes
    BY ObligationsAssumption DEF LInv, IInv, TypeOK, ObligationsAssumption
  <2>2. QED
    BY <2>1 DEF LInv, Progress, VerifiedOf, TaxTypes
<1>2. QED
  BY <1>1, LInvAlways, PTL

(* A lodgment that succeeds has queued one instruction for each tax type   *)
(* and no plan, and every instruction ever queued is in its account.       *)
THEOREM LodgmentCompleteAlways == Spec => []LodgmentComplete
<1>1. LInv => LodgmentComplete
  <2> SUFFICES ASSUME LInv PROVE LodgmentComplete
    OBVIOUS
  <2>1. /\ plans = {} /\ \A l \in Lodgments : lodgment[l] # "failed"
        /\ transfers \subseteq Instructions
    BY DEF LInv, IInv, NeverShort, NoShortfall, TypeOK
  <2>2. ASSUME NEW l \in Lodgments, lodgment[l] = "success"
        PROVE  {i.tax : i \in {j \in transfers : j.lodgment = l}} = TaxTypes
    BY <2>1, <2>2 DEF LInv, Progress, Instructed, Instructions, TaxTypes
  <2>3. QED
    BY <2>1, <2>2 DEF LodgmentComplete, LInv, InstructionsFunded
<1>2. QED
  BY <1>1, LInvAlways, PTL
-----------------------------------------------------------------------------
(* Nothing is remitted twice.  What a lodgment summed was pending then, so *)
(* no lodgment had marked it; and once it has marked it no other one sums  *)
(* it.  Two lodgments ask for one obligation only if one summed it between *)
(* the other's sum and mark, and is crowded.                               *)
Verified == {e \in Events : obligation[e] = "verified"}

InWindow(l, t) == pc[l] \in {"summed", "compared"} /\ TaxAt(l) = t
Marked(l, t) ==
  \/ pc[l] \in {"verify", "summed", "compared"} /\ turn[l] = 2 /\ t = "PAYGW"
  \/ pc[l] = "queue"
Claims(l, t) == InWindow(l, t) \/ Marked(l, t) \/ Instructed(l, t)

(* The sum, and later the result, is of the obligations it asks for; those *)
(* are verified once it has marked them.                                   *)
Asks(l) ==
  \A t \in TaxTypes :
    /\ asked[l][t] \subseteq OfTax(Recorded, t)
    /\ InWindow(l, t) => seen[l].pending = Total(asked[l][t])
    /\ Marked(l, t) => result[l][t].pending = Total(asked[l][t])
    /\ Marked(l, t) \/ Instructed(l, t) => asked[l][t] \subseteq Verified
    /\ Instructed(l, t) =>
         /\ pc[l] \notin {"idle", "verify", "summed", "compared"}
         /\ pc[l] = "queue" => turn[l] = 2 /\ t = "PAYGW"

Disjoint ==
  \A l, m \in Lodgments : \A t \in TaxTypes :
    l # m /\ <<l, t>> \notin crowded /\ <<m, t>> \notin crowded /\ Claims(l, t) /\ Claims(m, t) =>
      asked[l][t] \cap asked[m][t] = {}

(* Of one tax type: the obligations the lodgments that are not crowded have *)
(* asked for, and what all instructions ask for.                            *)
Claimed(t) == UNION {asked[i.lodgment][t] : i \in Alone(t)}
WithinClaims ==
  /\ \A t \in TaxTypes : IsFiniteSet(InstructionCents(Alone(t)))
                         /\ Remitted(Alone(t)) <= Total(Claimed(t))
  /\ \A i \in transfers : i.amount = Total(asked[i.lodgment][i.tax])

RInv == LInv /\ (\A l \in Lodgments : Asks(l)) /\ Disjoint /\ WithinClaims

(* Another instruction adds its amount to what a set of them asks for.     *)
LEMMA RemittedAdd ==
  ASSUME NEW S, NEW i \in Instructions, IsFiniteSet(InstructionCents(S))
  PROVE  /\ IsFiniteSet(InstructionCents(S \cup {i}))
         /\ Remitted(S) \in Nat /\ Remitted(S \cup {i}) \in Nat
         /\ Remitted(S \cup {i}) <= Remitted(S) + i.amount
<1> DEFINE A == InstructionCents(S)
           B == {i} \X (1..i.amount)
<1>1. InstructionCents(S \cup {i}) = A \cup B
  BY DEF InstructionCents
<1>2. IsFiniteSet(B) /\ Cardinality(B) = i.amount
  <2> DEFINE n == i.amount
  <2>1. n \in Nat
    BY DEF Instructions
  <2> HIDE DEF n
  <2>2. IsFiniteSet(1..n) /\ Cardinality(1..n) = n
    BY <2>1, FS_Interval
  <2>3. IsFiniteSet({i}) /\ Cardinality({i}) = 1
    BY FS_Singleton
  <2>4. IsFiniteSet({i} \X (1..n)) /\ Cardinality({i} \X (1..n)) = 1 * n
    BY <2>2, <2>3, FS_Product
  <2>5. QED
    BY <2>1, <2>4 DEF n
<1> HIDE DEF A, B
<1>3. IsFiniteSet(A)
  BY DEF A
<1>4. IsFiniteSet(A \cap B)
  BY <1>3, FS_Subset
<1>5. /\ IsFiniteSet(A \cup B)
      /\ Cardinality(A \cup B) = Cardinality(A) + Cardinality(B) - Cardinality(A \cap B)
  BY <1>2, <1>3, FS_Union
<1>6. Cardinality(A) \in Nat /\ Cardinality(B) \in Nat /\ Cardinality(A \cap B) \in Nat
  BY <1>2, <1>3, <1>4, FS_CardinalityType
<1>7. Cardinality(A \cup B) <= Cardinality(A) + Cardinality(B)
  BY <1>5, <1>6
<1>8. QED
  BY <1>1, <1>2, <1>5, <1>6, <1>7, FS_CardinalityType DEF Remitted, A

-----------------------------------------------------------------------------
(* Only a lodgment that is not over queues an instruction.                 *)
LEMMA TransfersStep ==
  ASSUME IInv, [Next]_vars
  PROVE  \/ transfers' = transfers
         \/ \E l \in Lodgments :
              /\ pc[l] = "queue" /\ QueueTransfer(l)
              /\ transfers' = transfers \cup {Instruction(l, TaxAt(l))}
<1>1. ASSUME NEW l \in Lodgments, QueueTransfer(l)
      PROVE  /\ pc[l] = "queue"
             /\ transfers' = transfers \cup {Instruction(l, TaxAt(l))}
  BY <1>1 DEF QueueTransfer, Goto, IInv, NeverShort
<1>2. QED
  BY <1>1
     DEF Next, EventStep, LodgmentStep, AllOver, vars, db, RecordEvent, Deposit,
         RecordObligation, AggregateObligations, FetchAccount, EventVerified,
         RecordShortfall, CheckExpected, MarkProcessed, OpenLodgment, LodgmentVerified,
         RequestPlan, FinaliseLodgment, AuditLodgment, Fail

(* Only a lodgment that sums changes what it asks for.                     *)
LEMMA AskedStep ==
  ASSUME IInv, [Next]_vars
  PROVE  \/ UNCHANGED <<asked, crowded>>
         \/ \E l \in Lodgments : AggregateObligations(l)
<1>1. ASSUME NEW e \in Events, AggregateObligations(e) PROVE UNCHANGED <<asked, crowded>>
  BY <1>1, ObligationsAssumption DEF AggregateObligations, NoteSum, ObligationsAssumption
<1>2. QED
  BY <1>1
     DEF Next, EventStep, LodgmentStep, AllOver, vars, db, history, RecordEvent, Deposit,
         RecordObligation, FetchAccount, EventVerified, RecordShortfall, CheckExpected,
         MarkProcessed, OpenLodgment, LodgmentVerified, QueueTransfer, RequestPlan,
         FinaliseLodgment, AuditLodgment, Fail

(* What it sums was pending; it is crowded if another one that is to mark  *)
(* it summed some of it.                                                   *)
LEMMA SumStep ==
  ASSUME IInv, NEW l \in Lodgments, AggregateObligations(l)
  PROVE  /\ pc[l] = "verify" /\ pc'[l] = "summed"
         /\ UNCHANGED <<obligation, transfers, turn, result>>
         /\ TaxAt(l) \in TaxTypes
         /\ seen'[l].pending = Total(OfTax(Pending, TaxAt(l)))
         /\ asked'[l][TaxAt(l)] = OfTax(Pending, TaxAt(l))
         /\ \A t \in TaxTypes \ {TaxAt(l)} : asked'[l][t] = asked[l][t]
         /\ \A m \in Lodgments \ {l} : asked'[m] = asked[m]
         /\ crowded \subseteq crowded' /\ crowded' \subseteq crowded \cup {<<l, TaxAt(l)>>}
         /\ <<l, TaxAt(l)>> \notin crowded' =>
              \A m \in Lodgments : InWindow(m, TaxAt(l)) => asked[m][TaxAt(l)] \cap Pending = {}
<1>1. /\ l \in Handlers /\ TaxAt(l) \in TaxTypes
      /\ pc \in [Handlers -> HandlerStates]
      /\ seen \in [Handlers -> [pending : Nat, balance : Nat]]
      /\ asked \in [Lodgments -> [TaxTypes -> SUBSET Events]]
  BY TaxAtType DEF IInv, TypeOK, Handlers
<1>2. /\ pc[l] = "verify" /\ pc'[l] = "summed"
      /\ UNCHANGED <<obligation, transfers, turn, result>>
      /\ seen'[l].pending = Total(OfTax(Pending, TaxAt(l)))
  BY <1>1 DEF AggregateObligations, Goto, db
<1>3. NoteSum(l, TaxAt(l))
  BY DEF AggregateObligations
<1>4. asked' = [asked EXCEPT ![l][TaxAt(l)] = OfTax(Pending, TaxAt(l))]
  BY <1>3 DEF NoteSum
<1>5. crowded' = IF \A m \in Summing(TaxAt(l)) : asked[m][TaxAt(l)] \cap Pending = {}
                 THEN crowded ELSE crowded \cup {<<l, TaxAt(l)>>}
  BY <1>3 DEF NoteSum
<1>6. /\ crowded \subseteq crowded' /\ crowded' \subseteq crowded \cup {<<l, TaxAt(l)>>}
      /\ <<l, TaxAt(l)>> \notin crowded' =>
           \A m \in Lodgments : InWindow(m, TaxAt(l)) => asked[m][TaxAt(l)] \cap Pending = {}
  BY <1>5 DEF Summing, InWindow
<1>7. QED
  BY <1>1, <1>2, <1>4, <1>6

(* A lodgment that does not move keeps what it asks for.                   *)
Kept(l) ==
  /\ Still(l) /\ asked'[l] = asked[l]
  /\ \A t \in TaxTypes : Instructed(l, t)' <=> Instructed(l, t)

LEMMA OthersKept ==
  ASSUME IInv, NEW h \in Handlers, NEW l \in Lodgments, l # h,
         \/ h \in Events /\ EventStep(h)
         \/ h \in Lodgments /\ LodgmentStep(h)
         \/ Fail(h)
  PROVE  Kept(l)
<1>1. Still(l)
  BY OthersStill
<1>2. [Next]_vars
  BY DEF Next, Handlers
<1>3. asked'[l] = asked[l]
  <2>1. CASE UNCHANGED asked
    BY <2>1
  <2>2. CASE h \in Lodgments /\ AggregateObligations(h)
    BY <2>2, SumStep
  <2>3. CASE h \in Events /\ AggregateObligations(h)
    BY <2>3, ObligationsAssumption DEF AggregateObligations, NoteSum, ObligationsAssumption
  <2>4. QED
    BY <2>1, <2>2, <2>3
       DEF EventStep, LodgmentStep, history, RecordEvent, Deposit,
           RecordObligation, FetchAccount, EventVerified, RecordShortfall, CheckExpected,
           MarkProcessed, OpenLodgment, LodgmentVerified, QueueTransfer, RequestPlan,
           FinaliseLodgment, AuditLodgment, Fail
<1>4. ASSUME NEW t \in TaxTypes PROVE Instructed(l, t)' <=> Instructed(l, t)
  <2>1. CASE UNCHANGED transfers
    BY <2>1 DEF Instructed
  <2>2. CASE QueueTransfer(h)
    <3>1. /\ transfers \subseteq transfers'
          /\ transfers' \subseteq transfers \cup {Instruction(h, TaxAt(h))}
      BY <2>2 DEF QueueTransfer
    <3>2. Instruction(h, TaxAt(h)).lodgment # l
      BY DEF Instruction
    <3>3. QED
      BY <3>1, <3>2 DEF Instructed
  <2>3. QED
    BY <2>1, <2>2
       DEF EventStep, LodgmentStep, db, RecordEvent, Deposit, AggregateObligations,
           RecordObligation, FetchAccount, EventVerified, RecordShortfall, CheckExpected,
           MarkProcessed, OpenLodgment, LodgmentVerified, RequestPlan,
           FinaliseLodgment, AuditLodgment, Fail
<1>5. QED
  BY <1>1, <1>3, <1>4 DEF Kept

LEMMA KeptAsks ==
  ASSUME IInv, Grows, NEW l \in Lodgments, Kept(l), Asks(l)
  PROVE  Asks(l)'
<1>1. TaxAt(l)' = TaxAt(l)
  BY ObligationsAssumption DEF Kept, Still, TaxAt, ObligationsAssumption
<1>2. \A t \in TaxTypes :
        /\ InWindow(l, t)' <=> InWindow(l, t)
        /\ Marked(l, t)' <=> Marked(l, t)
        /\ Total(asked[l][t])' = Total(asked[l][t])
        /\ OfTax(Recorded, t) \subseteq OfTax(Recorded, t)'
  BY <1>1 DEF Kept, Still, InWindow, Marked, Total, Cents, Grows, OfTax, Recorded
<1>3. Verified \subseteq Verified'
  BY DEF Grows, Verified
<1>4. QED
  BY <1>1, <1>2, <1>3 DEF Kept, Still, Asks

(* A lodgment that moves asks for what it summed, once it has marked it.   *)
LEMMA OwnAsks ==
  ASSUME LInv, NEW l \in Lodgments, Asks(l), Grows, [Next]_vars,
         LodgmentStep(l) \/ Fail(l)
  PROVE  Asks(l)'
<1>1. /\ l \in Handlers /\ l \notin Events /\ pc \in [Handlers -> HandlerStates]
      /\ seen \in [Handlers -> [pending : Nat, balance : Nat]]
      /\ result \in [Lodgments -> [TaxTypes -> [pending : Nat, short : BOOLEAN]]]
      /\ asked \in [Lodgments -> [TaxTypes -> SUBSET Events]]
      /\ obligation \in [Events -> {"none", "pending", "verified"}]
      /\ turn \in [Lodgments -> 1..2]
      /\ IInv /\ TypeOK /\ TaxAt(l) \in TaxTypes
      /\ TaxAt(l) = IF turn[l] = 2 THEN "GST" ELSE "PAYGW"
  BY TaxAtType, ObligationsAssumption
     DEF LInv, IInv, TypeOK, Handlers, TaxAt, TaxOrder, ObligationsAssumption
<1>2. /\ \A t \in TaxTypes : OfTax(Recorded, t) \subseteq OfTax(Recorded, t)'
      /\ Verified \subseteq Verified'
  BY DEF Grows, OfTax, Recorded, Verified
<1>3. CASE AggregateObligations(l)
  <2>1. \A t \in TaxTypes : Instructed(l, t)' <=> Instructed(l, t)
    BY <1>1, <1>3, SumStep DEF Instructed
  <2>2. TaxAt(l)' = TaxAt(l)
    BY <1>1, <1>3, SumStep DEF TaxAt
  <2>3. ASSUME NEW t \in TaxTypes, t = TaxAt(l)
        PROVE  /\ asked'[l][t] \subseteq OfTax(Recorded, t)'
               /\ seen'[l].pending = Total(asked[l][t])'
               /\ ~Marked(l, t)' /\ ~Instructed(l, t)'
    <3>1. asked'[l][t] = OfTax(Pending, t) /\ seen'[l].pending = Total(OfTax(Pending, t))
      BY <1>1, <1>3, <2>3, SumStep
    <3>2. ~Marked(l, t)' /\ ~Instructed(l, t)'
      BY <1>1, <1>3, <2>1, <2>3, SumStep DEF Marked, Asks
    <3>3. OfTax(Pending, t) \subseteq OfTax(Recorded, t)
      BY DEF OfTax, Pending, Recorded
    <3>4. QED
      BY <1>2, <3>1, <3>2, <3>3 DEF Total, Cents
  <2>4. ASSUME NEW t \in TaxTypes, t # TaxAt(l)
        PROVE  /\ asked'[l][t] = asked[l][t] /\ Total(asked[l][t])' = Total(asked[l][t])
               /\ ~InWindow(l, t)'
               /\ result'[l][t].pending = result[l][t].pending
               /\ Marked(l, t)' => Marked(l, t)
    <3>1. asked'[l][t] = asked[l][t] /\ result' = result
      BY <1>1, <1>3, <2>4, SumStep
    <3>2. ~InWindow(l, t)'
      BY <2>2, <2>4 DEF InWindow
    <3>3. Marked(l, t)' => Marked(l, t)
      BY <1>1, <1>3, SumStep DEF Marked
    <3> QED
      BY <3>1, <3>2, <3>3 DEF Total, Cents
  <2>5. pc'[l] \notin {"idle", "queue"} /\ \A t \in TaxTypes : ~Instructed(l, t)
    BY <1>1, <1>3, SumStep DEF Asks
  <2> QED
    BY <1>2, <2>1, <2>3, <2>4, <2>5 DEF Asks
<1>4. ASSUME ~AggregateObligations(l)
      PROVE  asked' = asked /\ \A t \in TaxTypes : Total(asked[l][t])' = Total(asked[l][t])
  <2>1. asked' = asked
    BY <1>1, <1>4 DEF history, LodgmentStep, OpenLodgment, FetchAccount, LodgmentVerified,
       QueueTransfer, RequestPlan, FinaliseLodgment, AuditLodgment, Fail
  <2> QED
    BY <2>1 DEF Total, Cents
<1>5. CASE OpenLodgment(l)
  <2>1. /\ pc[l] = "idle" /\ pc'[l] = "verify" /\ UNCHANGED <<turn, transfers, asked>>
        /\ turn[l] = 1
    BY <1>1, <1>5 DEF OpenLodgment, Goto, LInv, Progress
  <2>2. \A t \in TaxTypes : ~InWindow(l, t)' /\ ~Marked(l, t)' /\ ~Instructed(l, t)'
    BY <1>1, <2>1 DEF InWindow, Marked, Instructed, Asks
  <2> QED
    BY <1>2, <2>1, <2>2 DEF Asks
<1>6. CASE FetchAccount(l)
  <2>1. /\ pc[l] = "summed" /\ pc'[l] = "compared"
        /\ UNCHANGED <<turn, transfers, result, obligation, asked>>
        /\ seen'[l].pending = seen[l].pending /\ TaxAt(l)' = TaxAt(l)
    BY <1>1, <1>6 DEF FetchAccount, Goto, db, history, TaxAt
  <2>2. \A t \in TaxTypes : /\ InWindow(l, t)' <=> InWindow(l, t)
                            /\ Marked(l, t)' <=> Marked(l, t)
                            /\ ~Instructed(l, t)'
                            /\ Total(asked[l][t])' = Total(asked[l][t])
    BY <2>1 DEF InWindow, Marked, Instructed, Asks, Total, Cents
  <2>3. \A t \in TaxTypes :
          /\ asked[l][t] \subseteq OfTax(Recorded, t)
          /\ InWindow(l, t) => seen[l].pending = Total(asked[l][t])
          /\ Marked(l, t) => result[l][t].pending = Total(asked[l][t])
          /\ Marked(l, t) => asked[l][t] \subseteq Verified
    BY DEF Asks
  <2> SUFFICES ASSUME NEW t \in TaxTypes
               PROVE  /\ asked'[l][t] \subseteq OfTax(Recorded, t)'
                      /\ InWindow(l, t)' => seen'[l].pending = Total(asked[l][t])'
                      /\ Marked(l, t)' => result'[l][t].pending = Total(asked[l][t])'
                      /\ Marked(l, t)' => asked'[l][t] \subseteq Verified'
    <3>1. \A t \in TaxTypes : ~Instructed(l, t)'
      BY <2>2
    <3> QED
      BY <3>1 DEF Asks
  <2>4. /\ InWindow(l, t)' => seen[l].pending = Total(asked[l][t])
        /\ Marked(l, t)' => result[l][t].pending = Total(asked[l][t])
        /\ Marked(l, t)' => asked[l][t] \subseteq Verified
        /\ asked[l][t] \subseteq OfTax(Recorded, t)
    BY <2>2, <2>3
  <2>5. Total(asked[l][t])' = Total(asked[l][t])
    BY <2>2
  <2> QED
    BY <1>2, <2>1, <2>4, <2>5
<1>7. CASE LodgmentVerified(l)
  <2>1. /\ pc[l] = "compared" /\ transfers' = transfers /\ asked' = asked
        /\ pc'[l] = (IF turn[l] = 2 THEN "queue" ELSE "verify")
        /\ turn'[l] = (IF turn[l] = 2 THEN 1 ELSE 2)
        /\ result' = [result EXCEPT ![l][TaxAt(l)] =
                        [pending |-> seen[l].pending, short |-> ~Covered(l)]]
    BY <1>1, <1>7 DEF LodgmentVerified, Goto, LastTurn, NextTurn, history
  <2>2. \A t \in TaxTypes : result'[l][t].pending =
          IF t = TaxAt(l) THEN seen[l].pending ELSE result[l][t].pending
    BY <1>1, <2>1
  <2>3. obligation' = [e \in Events |->
          IF e \in OfTax(Pending, TaxAt(l)) THEN "verified" ELSE obligation[e]]
    BY <1>1, <1>7, <2>1
       DEF LodgmentVerified, MarkIfCovered, MarkStatus, IInv, ReadsCovered
  <2>4. OfTax(Recorded, TaxAt(l)) \subseteq Verified'
    BY <1>1, <2>3 DEF OfTax, Recorded, Pending, Verified
  <2>5. \A t \in TaxTypes : Instructed(l, t)' <=> Instructed(l, t)
    BY <2>1 DEF Instructed
  <2>6. \A t \in TaxTypes :
          /\ ~InWindow(l, t)' /\ ~Instructed(l, t)'
          /\ Marked(l, t)' => t = TaxAt(l) \/ Marked(l, t)
          /\ InWindow(l, TaxAt(l))
    BY <1>1, <2>1, <2>5 DEF InWindow, Marked, Asks, TaxTypes
  <2>7. ASSUME NEW t \in TaxTypes, Marked(l, t)'
        PROVE  /\ result'[l][t].pending = Total(asked[l][t])'
               /\ asked[l][t] \subseteq Verified'
    <3>1. CASE t = TaxAt(l)
      BY <1>1, <1>4, <2>1, <2>2, <2>4, <2>6, <3>1 DEF Asks, Total, Cents
    <3>2. CASE t # TaxAt(l)
      BY <1>2, <2>1, <2>2, <2>6, <2>7, <3>2 DEF Asks, Total, Cents
    <3> QED
      BY <3>1, <3>2
  <2> QED
    BY <1>2, <2>1, <2>6, <2>7 DEF Asks
<1>8. CASE QueueTransfer(l)
  <2>1. /\ pc[l] = "queue" /\ ~Failed(l)
        /\ pc'[l] = (IF turn[l] = 2 THEN "plan" ELSE "queue")
        /\ turn'[l] = (IF turn[l] = 2 THEN 1 ELSE 2)
        /\ transfers' = transfers \cup {Instruction(l, TaxAt(l))}
        /\ UNCHANGED <<result, obligation, asked>>
    BY <1>1, <1>8 DEF QueueTransfer, Goto, LastTurn, NextTurn, IInv, NeverShort, history
  <2>2. \A t \in TaxTypes :
          /\ ~InWindow(l, t)' /\ Marked(l, t)
          /\ Instructed(l, t)' => t = TaxAt(l) \/ Instructed(l, t)
    BY <2>1 DEF InWindow, Marked, Instructed, Instruction
  <2>3. \A t \in TaxTypes : Instructed(l, t) => turn[l] = 2 /\ t = "PAYGW"
    BY <2>1 DEF Asks
  <2>4. \A t \in TaxTypes : Instructed(l, t)' =>
          /\ pc'[l] \notin {"idle", "verify", "summed", "compared"}
          /\ pc'[l] = "queue" => turn'[l] = 2 /\ t = "PAYGW"
    BY <1>1, <2>1, <2>2, <2>3
  <2>5. \A t \in TaxTypes : Total(asked[l][t])' = Total(asked[l][t])
    BY <2>1 DEF Total, Cents
  <2>6. \A t \in TaxTypes :
          /\ asked[l][t] \subseteq OfTax(Recorded, t)
          /\ result[l][t].pending = Total(asked[l][t])
          /\ asked[l][t] \subseteq Verified
    BY <2>2 DEF Asks
  <2> SUFFICES ASSUME NEW t \in TaxTypes
               PROVE  /\ asked'[l][t] \subseteq OfTax(Recorded, t)'
                      /\ result'[l][t].pending = Total(asked[l][t])'
                      /\ asked'[l][t] \subseteq Verified'
    BY <2>2, <2>4 DEF Asks
  <2> QED
    BY <1>2, <2>1, <2>5, <2>6
<1>9. CASE RequestPlan(l) \/ FinaliseLodgment(l) \/ AuditLodgment(l) \/ Fail(l)
  <2>1. /\ pc'[l] \in {"finalise", "audit", "done", "failed"}
        /\ UNCHANGED <<obligation, transfers, asked>>
    BY <1>1, <1>9 DEF RequestPlan, FinaliseLodgment, AuditLodgment, Fail, Goto, db, history
  <2>2. \A t \in TaxTypes : /\ ~InWindow(l, t)' /\ ~Marked(l, t)'
                            /\ Instructed(l, t)' <=> Instructed(l, t)
    BY <2>1 DEF InWindow, Marked, Instructed
  <2>3. \A t \in TaxTypes : /\ asked[l][t] \subseteq OfTax(Recorded, t)
                            /\ Instructed(l, t) => asked[l][t] \subseteq Verified
    BY DEF Asks
  <2> SUFFICES ASSUME NEW t \in TaxTypes
               PROVE  /\ asked'[l][t] \subseteq OfTax(Recorded, t)'
                      /\ Instructed(l, t)' => asked'[l][t] \subseteq Verified'
    BY <2>1, <2>2 DEF Asks
  <2> QED
    BY <1>2, <2>1, <2>2, <2>3
<1>10. QED
  BY <1>3, <1>5, <1>6, <1>7, <1>8, <1>9 DEF LodgmentStep

(* It claims nothing new but by summing.                                   *)
LEMMA ClaimsStep ==
  ASSUME LInv, NEW l \in Lodgments, Asks(l), LodgmentStep(l) \/ Fail(l),
         NEW t \in TaxTypes, Claims(l, t)'
  PROVE  \/ Claims(l, t) /\ asked'[l][t] = asked[l][t]
         \/ AggregateObligations(l) /\ TaxAt(l) = t
<1>1. /\ l \in Handlers /\ l \notin Events /\ pc \in [Handlers -> HandlerStates]
      /\ turn \in [Lodgments -> 1..2] /\ IInv /\ Progress(l)
      /\ TaxAt(l) = IF turn[l] = 2 THEN "GST" ELSE "PAYGW"
      /\ TaxAt(l)' = IF turn'[l] = 2 THEN "GST" ELSE "PAYGW"
  <2>1. turn[l] \in 1..2 /\ turn'[l] \in 1..2
    BY TypeStep DEF LInv, IInv, TypeOK, Next, Handlers
  <2> QED
    BY <2>1, ObligationsAssumption
       DEF LInv, IInv, TypeOK, Handlers, TaxAt, TaxOrder, ObligationsAssumption
<1>2. CASE AggregateObligations(l)
  <2>1. Instructed(l, t)' <=> Instructed(l, t)
    BY <1>1, <1>2, SumStep DEF Instructed
  <2> QED
    BY <1>1, <1>2, <2>1, SumStep DEF Claims, InWindow, Marked, Asks
<1>3. CASE OpenLodgment(l)
  <2>1. /\ pc[l] = "idle" /\ pc'[l] = "verify" /\ UNCHANGED <<turn, transfers, asked>>
    BY <1>1, <1>3 DEF OpenLodgment, Goto
  <2> QED
    BY <1>1, <2>1 DEF Progress, Claims, InWindow, Marked, Instructed
<1>4. CASE FetchAccount(l)
  <2>1. /\ pc[l] = "summed" /\ pc'[l] = "compared" /\ UNCHANGED <<turn, transfers, asked>>
    BY <1>1, <1>4 DEF FetchAccount, Goto, db, history
  <2> QED
    BY <1>1, <2>1 DEF Claims, InWindow, Marked, Instructed
<1>5. CASE LodgmentVerified(l)
  <2>1. /\ pc[l] = "compared" /\ UNCHANGED <<transfers, asked>>
        /\ pc'[l] = (IF turn[l] = 2 THEN "queue" ELSE "verify")
        /\ turn'[l] = (IF turn[l] = 2 THEN 1 ELSE 2)
    BY <1>1, <1>5 DEF LodgmentVerified, Goto, LastTurn, NextTurn, history
  <2> QED
    BY <1>1, <2>1 DEF Claims, InWindow, Marked, Instructed, TaxTypes
<1>6. CASE QueueTransfer(l)
  <2>1. pc[l] = "queue" /\ asked' = asked
    BY <1>1, <1>6 DEF QueueTransfer, Goto, history
  <2> QED
    BY <2>1 DEF Claims, Marked
<1>7. CASE RequestPlan(l) \/ FinaliseLodgment(l) \/ AuditLodgment(l) \/ Fail(l)
  <2>1. /\ pc'[l] \in {"finalise", "audit", "done", "failed"}
        /\ UNCHANGED <<transfers, asked>>
    BY <1>1, <1>7 DEF RequestPlan, FinaliseLodgment, AuditLodgment, Fail, Goto, db, history
  <2> QED
    BY <2>1 DEF Claims, InWindow, Marked, Instructed
<1>8. QED
  BY <1>2, <1>3, <1>4, <1>5, <1>6, <1>7 DEF LodgmentStep

LEMMA KeptClaims ==
  ASSUME NEW l \in Lodgments, Kept(l), NEW t \in TaxTypes
  PROVE  (Claims(l, t)' <=> Claims(l, t)) /\ asked'[l][t] = asked[l][t]
<1>1. TaxAt(l)' = TaxAt(l)
  BY ObligationsAssumption DEF Kept, Still, TaxAt, ObligationsAssumption
<1> QED
  BY <1>1 DEF Kept, Still, Claims, InWindow, Marked
-----------------------------------------------------------------------------
(* Each lodgment moves or is kept. *)
LEMMA MovesOrKept ==
  ASSUME IInv, [Next]_vars, NEW l \in Lodgments
  PROVE  LodgmentStep(l) \/ Fail(l) \/ Kept(l)
<1>1. CASE UNCHANGED vars
  BY <1>1 DEF vars, local, db, history, Kept, Still, Instructed
<1>2. CASE ~UNCHANGED vars
  <2>1. PICK h \in Handlers :
          \/ h \in Events /\ EventStep(h)
          \/ h \in Lodgments /\ LodgmentStep(h)
          \/ Fail(h)
    BY <1>2 DEF Next, AllOver, Handlers
  <2> QED
    BY <2>1, OthersKept, ObligationsAssumption DEF ObligationsAssumption
<1>3. QED
  BY <1>1, <1>2

LEMMA AsksStep ==
  ASSUME RInv, [Next]_vars, NEW l \in Lodgments
  PROVE  Asks(l)'
<1>1. LInv /\ IInv /\ Asks(l) /\ Grows
  BY StepGrows DEF RInv, LInv
<1> QED
  BY <1>1, MovesOrKept, OwnAsks, KeptAsks

(* What a lodgment newly sums is pending: no other one has marked it, and  *)
(* one that is about to would make it crowded.                             *)
LEMMA SumDisjoint ==
  ASSUME RInv, NEW l \in Lodgments, NEW m \in Lodgments, l # m, NEW t \in TaxTypes,
         AggregateObligations(l), TaxAt(l) = t, <<l, t>> \notin crowded', Claims(m, t)
  PROVE  asked'[l][t] \cap asked[m][t] = {}
<1>1. asked'[l][t] = OfTax(Pending, t)
  BY SumStep DEF RInv, LInv
<1>2. InWindow(m, t) => asked[m][t] \cap Pending = {}
  BY SumStep DEF RInv, LInv
<1>3. Marked(m, t) \/ Instructed(m, t) => asked[m][t] \subseteq Verified
  BY DEF RInv, Asks
<1> QED
  BY <1>1, <1>2, <1>3 DEF Claims, OfTax, Pending, Verified

LEMMA DisjointStep == RInv /\ [Next]_vars => Disjoint'
<1> SUFFICES ASSUME RInv, [Next]_vars PROVE Disjoint'
  OBVIOUS
<1>1. LInv /\ IInv /\ crowded \subseteq crowded'
  BY AskedStep, SumStep DEF RInv, LInv
<1>2. ASSUME NEW l \in Lodgments, NEW t \in TaxTypes, Claims(l, t)'
      PROVE  \/ Claims(l, t) /\ asked'[l][t] = asked[l][t]
             \/ AggregateObligations(l) /\ TaxAt(l) = t
  BY <1>1, <1>2, MovesOrKept, KeptClaims, ClaimsStep DEF RInv
<1>3. ASSUME NEW l \in Lodgments, NEW m \in Lodgments, l # m, AggregateObligations(l)
      PROVE  \A t \in TaxTypes : (Claims(m, t)' <=> Claims(m, t)) /\ asked'[m][t] = asked[m][t]
  BY <1>1, <1>3, OthersKept, KeptClaims DEF LodgmentStep, Handlers
<1> SUFFICES ASSUME NEW l \in Lodgments, NEW m \in Lodgments, NEW t \in TaxTypes, l # m,
                    <<l, t>> \notin crowded', <<m, t>> \notin crowded',
                    Claims(l, t)', Claims(m, t)'
             PROVE  asked'[l][t] \cap asked'[m][t] = {}
  BY DEF Disjoint
<1>4. CASE AggregateObligations(l) /\ TaxAt(l) = t
  BY <1>3, <1>4, SumDisjoint
<1>5. CASE AggregateObligations(m) /\ TaxAt(m) = t
  <2>1. asked'[m][t] \cap asked[l][t] = {}
    BY <1>3, <1>5, SumDisjoint
  <2> QED
    BY <1>3, <1>5, <2>1
<1>6. CASE /\ Claims(l, t) /\ asked'[l][t] = asked[l][t]
           /\ Claims(m, t) /\ asked'[m][t] = asked[m][t]
  BY <1>1, <1>6 DEF RInv, Disjoint
<1> QED
  BY <1>2, <1>4, <1>5, <1>6

(* An instruction asks for what its lodgment summed, none of which any     *)
(* other one that is not crowded has asked for.                            *)
LEMMA WithinStep == RInv /\ [Next]_vars => WithinClaims'
<1> SUFFICES ASSUME RInv, [Next]_vars PROVE WithinClaims'
  OBVIOUS
<1>1. /\ LInv /\ IInv /\ WithinClaims /\ transfers \subseteq Instructions
      /\ asked \in [Lodgments -> [TaxTypes -> SUBSET Events]]
      /\ result \in [Lodgments -> [TaxTypes -> [pending : Nat, short : BOOLEAN]]]
      /\ turn \in [Lodgments -> 1..2]
  BY DEF RInv, LInv, IInv, TypeOK
<1>2. CASE /\ transfers' = transfers
           /\ \A i \in transfers :
                /\ asked'[i.lodgment][i.tax] = asked[i.lodgment][i.tax]
                /\ <<i.lodgment, i.tax>> \in crowded' <=> <<i.lodgment, i.tax>> \in crowded
  <2>1. \A t \in TaxTypes : Alone(t)' = Alone(t)
    BY <1>2 DEF Alone, Ordered
  <2>2. \A t \in TaxTypes : \A i \in Alone(t) : asked'[i.lodgment][t] = asked[i.lodgment][t]
    BY <1>2 DEF Alone, Ordered
  <2>3. \A t \in TaxTypes : Claimed(t)' = Claimed(t)
    BY <2>1, <2>2 DEF Claimed
  <2>4. \A t \in TaxTypes :
          /\ InstructionCents(Alone(t)') = InstructionCents(Alone(t))
          /\ Remitted(Alone(t)') = Remitted(Alone(t))
          /\ Total(Claimed(t)') = Total(Claimed(t))
    BY <2>1, <2>3
  <2>5. \A i \in transfers' : i.amount = Total(asked'[i.lodgment][i.tax])
    BY <1>1, <1>2 DEF WithinClaims
  <2>6. \A t \in TaxTypes : /\ IsFiniteSet(InstructionCents(Alone(t)'))
                            /\ Remitted(Alone(t)') <= Total(Claimed(t)')
    BY <1>1, <2>4 DEF WithinClaims
  <2> QED
    BY <2>5, <2>6 DEF WithinClaims, Total, Cents, InstructionCents, Remitted
<1>3. CASE \E l \in Lodgments : AggregateObligations(l)
  <2>1. PICK l \in Lodgments : AggregateObligations(l)
    BY <1>3
  <2>2. \A i \in transfers : i.lodgment # l
    <3> SUFFICES ASSUME NEW i \in transfers, i.lodgment = l PROVE FALSE
      OBVIOUS
    <3>1. i.tax \in TaxTypes /\ Instructed(l, i.tax)
      BY <1>1 DEF Instructions, Instructed
    <3>2. pc[l] = "verify"
      BY <1>1, <2>1, SumStep
    <3> QED
      BY <3>1, <3>2 DEF RInv, Asks
  <2>3. \A i \in transfers :
          /\ asked'[i.lodgment][i.tax] = asked[i.lodgment][i.tax]
          /\ <<i.lodgment, i.tax>> \in crowded' <=> <<i.lodgment, i.tax>> \in crowded
    <3> SUFFICES ASSUME NEW i \in transfers
                 PROVE  /\ asked'[i.lodgment][i.tax] = asked[i.lodgment][i.tax]
                        /\ <<i.lodgment, i.tax>> \in crowded' <=>
                             <<i.lodgment, i.tax>> \in crowded
      OBVIOUS
    <3>1. i.lodgment \in Lodgments /\ i.lodgment # l
      BY <1>1, <2>2 DEF Instructions
    <3>2. /\ asked'[i.lodgment] = asked[i.lodgment]
          /\ crowded \subseteq crowded' /\ crowded' \subseteq crowded \cup {<<l, TaxAt(l)>>}
      BY <1>1, <2>1, <3>1, SumStep
    <3> QED
      BY <3>1, <3>2
  <2>4. transfers' = transfers
    BY <1>1, <2>1, SumStep
  <2> QED
    BY <1>2, <2>3, <2>4
<1>4. ASSUME NEW l \in Lodgments, pc[l] = "queue", QueueTransfer(l),
             transfers' = transfers \cup {Instruction(l, TaxAt(l))},
             UNCHANGED <<asked, crowded>>
      PROVE  WithinClaims'
  <2>1. /\ TaxAt(l) \in TaxTypes /\ TaxAt(l) = IF turn[l] = 2 THEN "GST" ELSE "PAYGW"
    BY <1>1, TaxAtType, ObligationsAssumption
       DEF IInv, TypeOK, Handlers, TaxAt, TaxOrder, ObligationsAssumption
  <2>2. PICK T \in TaxTypes : T = TaxAt(l)
    BY <2>1
  <2>3. T = IF turn[l] = 2 THEN "GST" ELSE "PAYGW"
    BY <2>1, <2>2
  <2>4. PICK i : i = Instruction(l, T)
    OBVIOUS
  <2>5. /\ i \in Instructions /\ i.tax = T /\ i.lodgment = l
        /\ i.amount = Total(asked[l][T])
    <3>1. Marked(l, T) /\ result[l][T].pending \in Nat
      BY <1>1, <1>4, <2>3 DEF Marked
    <3> QED
      BY <2>4, <3>1 DEF Instruction, Instructions, RInv, Asks
  <2>6. ~Instructed(l, T)
    BY <1>4, <2>3 DEF RInv, Asks
  <2>7. transfers' = transfers \cup {i}
    BY <1>4, <2>2, <2>4
  <2>8. \A j \in transfers' : j.amount = Total(asked[j.lodgment][j.tax])
    BY <1>1, <2>5, <2>7 DEF WithinClaims
  <2>9. ASSUME NEW t \in TaxTypes, Alone(t)' = Alone(t)
        PROVE  /\ IsFiniteSet(InstructionCents(Alone(t)'))
               /\ Remitted(Alone(t)') <= Total(Claimed(t)')
    <3>1. Claimed(t)' = Claimed(t)
      BY <1>4, <2>9 DEF Claimed
    <3> QED
      BY <1>1, <2>9, <3>1 DEF WithinClaims
  <2>10. \A t \in TaxTypes : t # T \/ <<l, T>> \in crowded => Alone(t)' = Alone(t)
    BY <1>4, <2>5, <2>7 DEF Alone, Ordered
  <2>11. ASSUME <<l, T>> \notin crowded
        PROVE  /\ IsFiniteSet(InstructionCents(Alone(T)'))
               /\ Remitted(Alone(T)') <= Total(Claimed(T)')
    <3>1. Alone(T)' = Alone(T) \cup {i}
      BY <1>4, <2>5, <2>7, <2>11 DEF Alone, Ordered
    <3>2. Claimed(T)' = Claimed(T) \cup asked[l][T]
      BY <1>4, <2>5, <3>1 DEF Claimed
    <3>3. asked[l][T] \in SUBSET Events /\ Claimed(T) \in SUBSET Events
      <4>1. ASSUME NEW j \in Alone(T) PROVE asked[j.lodgment][T] \in SUBSET Events
        BY <1>1 DEF Alone, Ordered, Instructions
      <4>2. Claimed(T) \subseteq Events
        BY <4>1 DEF Claimed
      <4> QED
        BY <1>1, <4>2
    <3>4. Claimed(T) \cap asked[l][T] = {}
      <4> SUFFICES ASSUME NEW j \in Alone(T) PROVE asked[j.lodgment][T] \cap asked[l][T] = {}
        BY DEF Claimed
      <4>1. /\ j \in transfers /\ j.lodgment \in Lodgments /\ j.tax = T
            /\ <<j.lodgment, T>> \notin crowded
        BY <1>1 DEF Alone, Ordered, Instructions
      <4>2. Claims(j.lodgment, T) /\ j.lodgment # l
        BY <2>6, <4>1 DEF Claims, Instructed
      <4>3. Claims(l, T)
        BY <1>4 DEF Claims, Marked
      <4> QED
        BY <2>3, <2>11, <4>1, <4>2, <4>3 DEF RInv, Disjoint
    <3>5. Total(Claimed(T)') = Total(Claimed(T)) + Total(asked[l][T])
      BY <3>2, <3>3, <3>4, TotalDisjoint
    <3>6. /\ IsFiniteSet(InstructionCents(Alone(T)))
          /\ Remitted(Alone(T)) <= Total(Claimed(T))
      BY <1>1, <2>3 DEF WithinClaims
    <3>7. Total(Claimed(T)) \in Nat /\ Total(asked[l][T]) \in Nat
      BY <3>3, CentsFinite
    <3>8. /\ IsFiniteSet(InstructionCents(Alone(T) \cup {i}))
          /\ Remitted(Alone(T)) \in Nat /\ Remitted(Alone(T) \cup {i}) \in Nat
          /\ Remitted(Alone(T) \cup {i}) <= Remitted(Alone(T)) + i.amount
      BY <2>5, <3>6, RemittedAdd
    <3>9. Remitted(Alone(T) \cup {i}) <= Total(Claimed(T)')
      BY <2>5, <3>5, <3>6, <3>7, <3>8
    <3> QED
      BY <3>1, <3>8, <3>9
  <2>12. ASSUME NEW t \in TaxTypes
        PROVE  /\ IsFiniteSet(InstructionCents(Alone(t)'))
               /\ Remitted(Alone(t)') <= Total(Claimed(t)')
    <3>1. CASE t = T /\ <<l, T>> \notin crowded
      BY <2>11, <3>1
    <3>2. CASE t # T \/ <<l, T>> \in crowded
      BY <2>9, <2>10, <3>2
    <3> QED
      BY <3>1, <3>2
  <2> QED
    BY <1>4, <2>8, <2>12 DEF WithinClaims, Total, Cents, InstructionCents, Remitted
<1>5. CASE \E l \in Lodgments : QueueTransfer(l)
  <2>1. PICK l \in Lodgments : QueueTransfer(l)
    BY <1>5
  <2>2. /\ pc[l] = "queue" /\ UNCHANGED <<asked, crowded>>
        /\ transfers' = transfers \cup {Instruction(l, TaxAt(l))}
    BY <1>1, <2>1 DEF QueueTransfer, Goto, IInv, NeverShort, history
  <2> QED
    BY <1>4, <2>1, <2>2
<1>6. QED
  BY <1>1, <1>2, <1>3, <1>5, AskedStep, TransfersStep

LEMMA RInvStep == RInv /\ [Next]_vars => RInv'
  BY LInvStep, AsksStep, DisjointStep, WithinStep DEF RInv

LEMMA RInvInit == Init => RInv
<1> SUFFICES ASSUME Init PROVE RInv
  OBVIOUS
<1>1. \A l \in Lodgments, t \in TaxTypes :
        ~InWindow(l, t) /\ ~Marked(l, t) /\ ~Instructed(l, t) /\ asked[l][t] = {}
  BY DEF Init, InWindow, Marked, Instructed, Handlers
<1>2. ASSUME NEW t \in TaxTypes
      PROVE  /\ IsFiniteSet(InstructionCents(Alone(t)))
             /\ Remitted(Alone(t)) <= Total(Claimed(t))
  <2>1. InstructionCents(Alone(t)) = {} /\ Claimed(t) = {}
    BY DEF Init, InstructionCents, Alone, Ordered, Claimed
  <2>2. Cents({}) = {}
    BY DEF Cents
  <2> QED
    BY <2>1, <2>2, FS_EmptySet DEF Remitted, Total
<1>3. WithinClaims
  BY <1>2 DEF Init, WithinClaims
<1> QED
  BY <1>1, <1>3, LInvInit DEF RInv, Asks, Disjoint, Claims

(* However many lodgments overlap, die and are interleaved with events:    *)
(* those that summed nothing another one had summed and was still to mark  *)
(* ask together for no more than was recorded, and each of the others      *)
(* asks for no more than that by itself.                                   *)
THEOREM NotOverRemittedAlways == Spec => []NotOverRemitted
<1>1. ASSUME RInv PROVE NotOverRemitted
  <2>1. /\ transfers \subseteq Instructions /\ WithinClaims
        /\ \A l \in Lodgments : Asks(l)
    BY <1>1 DEF RInv, LInv, IInv, TypeOK
  <2> SUFFICES ASSUME NEW t \in TaxTypes
               PROVE  /\ Remitted(Alone(t)) <= Total(OfTax(Recorded, t))
                      /\ \A i \in Ordered(t) : i.amount <= Total(OfTax(Recorded, t))
    BY DEF NotOverRemitted
  <2>2. /\ Claimed(t) \in SUBSET OfTax(Recorded, t) /\ OfTax(Recorded, t) \in SUBSET Events
    <3>1. ASSUME NEW i \in Alone(t) PROVE asked[i.lodgment][t] \subseteq OfTax(Recorded, t)
      BY <2>1, <3>1 DEF Alone, Ordered, Instructions, Asks
    <3>2. Claimed(t) \subseteq OfTax(Recorded, t)
      BY <3>1 DEF Claimed
    <3> QED
      BY <3>2 DEF OfTax, Recorded
  <2>3. /\ Total(Claimed(t)) \in Nat /\ Total(OfTax(Recorded, t)) \in Nat
        /\ Total(Claimed(t)) <= Total(OfTax(Recorded, t))
    <3>1. Claimed(t) \in SUBSET Events
      BY <2>2
    <3> QED
      BY <2>2, <3>1, CentsFinite, TotalMonotone
  <2>4. Remitted(Alone(t)) \in Nat /\ Remitted(Alone(t)) <= Total(Claimed(t))
    BY <2>1, FS_CardinalityType DEF WithinClaims, Remitted
  <2>5. ASSUME NEW i \in Ordered(t) PROVE i.amount <= Total(OfTax(Recorded, t))
    <3>1. i \in transfers /\ i.lodgment \in Lodgments /\ i.tax = t
      BY <2>1 DEF Ordered, Instructions
    <3>2. asked[i.lodgment][t] \in SUBSET OfTax(Recorded, t)
      BY <2>1, <3>1 DEF Asks
    <3>3. i.amount = Total(asked[i.lodgment][t])
      BY <2>1, <3>1 DEF WithinClaims
    <3> QED
      BY <2>2, <3>2, <3>3, TotalMonotone
  <2> QED
    BY <2>3, <2>4, <2>5
<1>2. QED
  BY <1>1, RInvInit, RInvStep, PTL DEF Spec
=============================================================================
