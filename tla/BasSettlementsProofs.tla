------------------------ MODULE BasSettlementsProofs ------------------------
(***************************************************************************)
(* Proofs about Finalise and Settlement as BasSettlements instantiates     *)
(* them: for any requests, keys, expiry and restarts of the one, and any   *)
(* calls, organisations, periods and arriving rows of the other.           *)
(***************************************************************************)
EXTENDS BasSettlements, TLAPS, FiniteSets, FiniteSetTheorems

(* Finalise.  A key holds one entry, of a call made with it; if it has no *)
(* result yet its call is under way.                                       *)
HeldOnce ==
  \A k \in Finalising!Keys :
    /\ \A e, f \in store[k] : e = f
    /\ \A e \in store[k] :
         /\ FinaliseKeyOf[e.by] = k /\ fpc[e.by] # "idle" /\ e.at <= fclock
         /\ ~e.done => fpc[e.by] = "inflight" /\ e.at = fclock

(* What this process prepared is remembered for 24 hours: its entry was    *)
(* never made older.                                                       *)
Remembered ==
  \A i \in issued :
    /\ i.at <= fclock /\ i.life <= life
    /\ i.life = life =>
         \/ fclock - i.at > TTL
         \/ \E e \in store[FinaliseKeyOf[i.by]] : i.at <= e.at

(* While a request waits its entry is there and the clock stands.          *)
WorkHeld ==
  \A c \in Finalisations : fpc[c] = "inflight" =>
    [by |-> c, at |-> fclock, done |-> FALSE] \in store[FinaliseKeyOf[c]]
SharedHeld ==
  \A c \in Finalisations : fpc[c] = "sharing" =>
    \E e \in store[FinaliseKeyOf[c]] :
      e.at = fclock /\ e.by # c /\ FinaliseBodyOf[e.by] = FinaliseBodyOf[c]

(* Instruction ids count the settlements.                                  *)
Numbered ==
  /\ IsFiniteSet(settlements)
  /\ \A s \in settlements : s.id <= counter

FInv ==
  /\ Finalising!FinaliseSound
  /\ HeldOnce /\ Remembered /\ WorkHeld /\ SharedHeld /\ Numbered
-----------------------------------------------------------------------------
LEMMA KeyType == \A c \in Finalisations : FinaliseKeyOf[c] \in Finalising!Keys
BY DEF Finalising!Keys

LEMMA SameCardinality == \A S : Finalising!Cardinality(S) = Cardinality(S)
BY DEF Finalising!Cardinality, Cardinality

LEMMA FInit == Finalising!Init => FInv
<1> SUFFICES ASSUME Finalising!Init PROVE FInv
  OBVIOUS
<1> USE BasAssumption DEF Finalising!Init
<1>1. Finalising!TypeOK
  BY DEF Finalising!TypeOK, Finalising!Modes, Finalising!Answers
<1>2. IsFiniteSet(settlements) /\ Finalising!Cardinality(settlements) = 0
  BY FS_EmptySet, SameCardinality
<1>3. Finalising!FinaliseSound
  BY <1>1, <1>2
     DEF Finalising!FinaliseSound, Finalising!OncePerWindow, Finalising!NothingReplaced
<1> QED BY <1>2, <1>3 DEF FInv, HeldOnce, Remembered, WorkHeld, SharedHeld, Numbered,
            Finalising!Keys

(* A request that is blocked, or is answered from its key's entry, leaves  *)
(* the settlements alone and loses only what is older than the 24 hours.   *)
LEMMA AnsweredStep ==
  ASSUME FInv, NEW c \in Finalisations, Finalising!Blocked(c) \/ Finalising!Answered(c)
  PROVE  FInv'
<1> USE BasAssumption
<1> DEFINE Key(d) == FinaliseKeyOf[d]
<1>1. /\ UNCHANGED <<mode, settlements, counter, fclock, life, issued>>
      /\ fclock \in Int /\ Finalising!TypeOK
  BY DEF Finalising!Blocked, Finalising!Answered, Finalising!memory, FInv,
      Finalising!FinaliseSound, Finalising!TypeOK
<1>2. /\ store' \in [Finalising!Keys -> SUBSET [by : Finalisations, at : 0..FinaliseMaxClock, done : BOOLEAN]]
      /\ \A k \in Finalising!Keys : store'[k] \subseteq store[k]
      /\ \A k \in Finalising!Keys : \A e \in store[k] :
           fclock - e.at <= TTL => e \in store'[k]
  BY <1>1 DEF Finalising!Blocked, Finalising!Answered, Finalising!memory, Finalising!TypeOK,
     Finalising!Pruned, Finalising!Unexpired, Finalising!Expired
<1>3. /\ fpc[c] = "idle" /\ fpc'[c] # "idle" /\ fpc'[c] # "inflight"
      /\ \A d \in Finalisations \ {c} : fpc'[d] = fpc[d]
      /\ fpc' \in [Finalisations -> {"idle", "inflight", "sharing"} \cup Finalising!Answers]
  BY <1>1 DEF Finalising!Blocked, Finalising!Answered, Finalising!Goto, Finalising!TypeOK,
      Finalising!Answers
<1>4. Finalising!FinaliseSound'
  BY <1>1, <1>2, <1>3 DEF FInv, Finalising!FinaliseSound, Finalising!TypeOK,
     Finalising!OncePerWindow, Finalising!NothingReplaced
<1>5. HeldOnce'
  BY <1>1, <1>2, <1>3 DEF FInv, HeldOnce, Finalising!TypeOK
<1>6. Remembered'
  BY <1>1, <1>2, KeyType DEF FInv, Remembered, Finalising!TypeOK
<1>7. WorkHeld'
  BY <1>1, <1>2, <1>3, KeyType DEF FInv, WorkHeld
<1>8. SharedHeld'
  <2> SUFFICES ASSUME NEW d \in Finalisations, fpc'[d] = "sharing"
               PROVE  \E e \in store'[Key(d)] :
                        e.at = fclock /\ e.by # d /\ FinaliseBodyOf[e.by] = FinaliseBodyOf[d]
    BY <1>1 DEF SharedHeld
  <2>1. CASE d # c
    <3>1. PICK e \in store[Key(d)] :
            e.at = fclock /\ e.by # d /\ FinaliseBodyOf[e.by] = FinaliseBodyOf[d]
      BY <1>3, <2>1 DEF FInv, SharedHeld
    <3> QED BY <1>1, <1>2, <3>1, KeyType
  <2>2. CASE d = c
    <3>1. PICK e \in Finalising!Held(c) :
            Finalising!SameBody(c) /\ ~e.done
      BY <1>3, <2>2 DEF Finalising!Blocked, Finalising!Answered, Finalising!Goto,
          Finalising!TypeOK, FInv, Finalising!FinaliseSound
    <3>2. e \in store[Key(c)] /\ FinaliseBodyOf[e.by] = FinaliseBodyOf[c] /\ e.by # c
      BY <1>3, <3>1, KeyType DEF Finalising!Held, Finalising!SameBody,
          Finalising!Unexpired, FInv, HeldOnce
    <3>3. e.at = fclock
      BY <3>1, <3>2, KeyType DEF FInv, HeldOnce
    <3> QED BY <1>1, <1>2, <2>2, <3>2, <3>3, KeyType
  <2> QED BY <2>1, <2>2
<1>9. Numbered'
  BY <1>1 DEF FInv, Numbered
<1> QED BY <1>4, <1>5, <1>6, <1>7, <1>8, <1>9 DEF FInv

(* A prepared settlement gets an id of its own and its key a new entry,    *)
(* which happens only when the key's last one is older than the 24 hours.  *)
LEMMA PrepareStep ==
  ASSUME FInv, NEW c \in Finalisations, Finalising!Prepare(c)
  PROVE  FInv'
<1> USE BasAssumption
<1> DEFINE k == FinaliseKeyOf[c]
           Entry == [by |-> c, at |-> fclock, done |-> FALSE]
           Prepared == [id |-> counter + 1, by |-> c]
           Record == [id |-> counter + 1, by |-> c, at |-> fclock, life |-> life]
<1>1. /\ UNCHANGED <<mode, fclock, life>> /\ Finalising!TypeOK /\ k \in Finalising!Keys
      /\ fclock \in Int /\ counter \in Nat
  BY KeyType DEF Finalising!Prepare, FInv, Finalising!FinaliseSound, Finalising!TypeOK
<1>2. /\ fpc[c] = "idle" /\ fpc'[c] = "inflight"
      /\ \A d \in Finalisations \ {c} : fpc'[d] = fpc[d]
      /\ fpc' \in [Finalisations -> {"idle", "inflight", "sharing"} \cup Finalising!Answers]
  BY <1>1 DEF Finalising!Prepare, Finalising!Goto, Finalising!TypeOK, Finalising!Answers
<1>3. /\ store' \in [Finalising!Keys -> SUBSET [by : Finalisations, at : 0..FinaliseMaxClock, done : BOOLEAN]]
      /\ store'[k] = {Entry}
      /\ \A l \in Finalising!Keys \ {k} : store'[l] \subseteq store[l]
      /\ \A l \in Finalising!Keys \ {k} : \A e \in store[l] :
           fclock - e.at <= TTL => e \in store'[l]
      /\ \A e \in store[k] : fclock - e.at > TTL
  BY <1>1 DEF Finalising!Prepare, Finalising!TypeOK, Finalising!Claim,
     Finalising!Held, Finalising!Pruned, Finalising!Unexpired, Finalising!Expired
<1>4. /\ settlements' = settlements \cup {Prepared} /\ Prepared \notin settlements
      /\ counter' = counter + 1 /\ issued' = issued \cup {Record}
  BY <1>1 DEF Finalising!Prepare, Finalising!NextId, FInv, Numbered, Finalising!TypeOK
<1>5. Finalising!TypeOK'
  BY <1>1, <1>2, <1>3, <1>4 DEF Finalising!TypeOK
<1>6. \A i \in issued :
        FinaliseKeyOf[i.by] = k /\ i.life = life => fclock - i.at > TTL
  BY <1>1, <1>3 DEF FInv, Remembered, Finalising!TypeOK
<1>7. Finalising!OncePerWindow'
  BY <1>4, <1>6 DEF FInv, Finalising!FinaliseSound, Finalising!OncePerWindow
<1>8. Numbered' /\ Cardinality(settlements') = Cardinality(settlements) + 1
  <2>1. IsFiniteSet(settlements)
    BY DEF FInv, Numbered
  <2>2. IsFiniteSet(settlements') /\ Cardinality(settlements') = Cardinality(settlements) + 1
    BY <1>4, <2>1, FS_AddElement
  <2>3. \A s \in settlements' : s.id <= counter'
    BY <1>1, <1>4 DEF FInv, Numbered, Finalising!TypeOK
  <2> QED BY <2>2, <2>3 DEF Numbered
<1>9. Finalising!NothingReplaced'
  BY <1>1, <1>4, <1>8, SameCardinality
     DEF FInv, Finalising!FinaliseSound, Finalising!NothingReplaced
<1>10. HeldOnce'
  BY <1>1, <1>2, <1>3 DEF FInv, HeldOnce, Finalising!TypeOK
<1>11. Remembered'
  <2> SUFFICES ASSUME NEW i \in issued', i.life = life
               PROVE  \/ fclock - i.at > TTL
                      \/ \E e \in store'[FinaliseKeyOf[i.by]] : i.at <= e.at
    <3>1. Record.at = fclock /\ Record.life = life
      OBVIOUS
    <3> HIDE DEF Record
    <3> QED BY <1>1, <1>4, <3>1 DEF Remembered, FInv, Finalising!TypeOK
  <2>1. CASE i = Record
    <3>1. i.at = fclock /\ i.by = c /\ Entry.at = fclock /\ Entry \in store'[k]
      BY <1>3, <2>1
    <3> QED BY <1>1, <3>1
  <2>2. CASE i \in issued
    BY <1>1, <1>3, <1>6, <2>2, KeyType DEF FInv, Remembered, Finalising!TypeOK
  <2> QED BY <1>4, <2>1, <2>2
<1>12. WorkHeld'
  BY <1>1, <1>2, <1>3, KeyType DEF FInv, WorkHeld
<1>13. SharedHeld'
  BY <1>1, <1>2, <1>3, KeyType DEF FInv, SharedHeld
<1> QED BY <1>5, <1>7, <1>8, <1>9, <1>10, <1>11, <1>12, <1>13
        DEF FInv, Finalising!FinaliseSound

(* The result takes the place of the work in flight, no earlier than it.   *)
LEMMA CompleteStep ==
  ASSUME FInv, NEW c \in Finalisations, Finalising!Complete(c)
  PROVE  FInv'
<1> USE BasAssumption
<1> DEFINE k == FinaliseKeyOf[c]
           Entry == [by |-> c, at |-> fclock, done |-> TRUE]
<1>1. /\ UNCHANGED <<mode, settlements, counter, fclock, life, issued>>
      /\ Finalising!TypeOK /\ k \in Finalising!Keys
      /\ fclock \in Int
  BY KeyType DEF Finalising!Complete, FInv, Finalising!FinaliseSound, Finalising!TypeOK
<1>2. /\ fpc[c] = "inflight" /\ fpc'[c] = "created"
      /\ \A d \in Finalisations \ {c} : fpc'[d] = fpc[d]
      /\ fpc' \in [Finalisations -> {"idle", "inflight", "sharing"} \cup Finalising!Answers]
  BY <1>1 DEF Finalising!Complete, Finalising!Goto, Finalising!TypeOK, Finalising!Answers
<1>3. /\ store' = [store EXCEPT ![k] = {Entry}]
      /\ store[k] = {[by |-> c, at |-> fclock, done |-> FALSE]}
  <2>1. [by |-> c, at |-> fclock, done |-> FALSE] \in store[k]
    BY <1>2 DEF FInv, WorkHeld
  <2>2. \A e, f \in store[k] : e = f
    BY <1>1 DEF FInv, HeldOnce
  <2> QED BY <2>1, <2>2 DEF Finalising!Complete, Finalising!Claim
<1> HIDE DEF Entry, k
<1>4. Finalising!FinaliseSound'
  BY <1>1, <1>2, <1>3 DEF FInv, Finalising!FinaliseSound, Finalising!TypeOK,
     Finalising!OncePerWindow, Finalising!NothingReplaced, Entry
<1>5. HeldOnce'
  <2> SUFFICES ASSUME NEW l \in Finalising!Keys
               PROVE  /\ \A e, f \in store'[l] : e = f
                      /\ \A e \in store'[l] :
                           /\ FinaliseKeyOf[e.by] = l /\ fpc'[e.by] # "idle" /\ e.at <= fclock
                           /\ ~e.done => fpc'[e.by] = "inflight" /\ e.at = fclock
    BY <1>1 DEF HeldOnce
  <2>1. CASE l = k
    <3>1. store'[l] = {Entry}
      BY <1>1, <1>3, <2>1 DEF Finalising!TypeOK
    <3>2. Entry.by = c /\ Entry.at = fclock /\ Entry.done
      BY DEF Entry
    <3> QED BY <1>1, <1>2, <2>1, <3>1, <3>2 DEF k
  <2>2. CASE l # k
    <3>1. store'[l] = store[l] /\ \A e \in store[l] : e.by \in Finalisations \ {c}
      BY <1>1, <1>3, <2>2 DEF Finalising!TypeOK, FInv, HeldOnce, k
    <3> QED BY <1>2, <3>1 DEF FInv, HeldOnce
  <2> QED BY <2>1, <2>2
<1>6. Remembered'
  BY <1>1, <1>3, KeyType DEF FInv, Remembered, Finalising!TypeOK, Entry, k
<1>7. WorkHeld'
  <2> SUFFICES ASSUME NEW d \in Finalisations, fpc'[d] = "inflight"
               PROVE  [by |-> d, at |-> fclock, done |-> FALSE] \in store'[FinaliseKeyOf[d]]
    BY <1>1 DEF WorkHeld
  <2>1. d # c /\ [by |-> d, at |-> fclock, done |-> FALSE] \in store[FinaliseKeyOf[d]]
    BY <1>2 DEF FInv, WorkHeld
  <2>2. FinaliseKeyOf[d] # k
    BY <1>3, <2>1
  <2> QED BY <1>1, <1>3, <2>1, <2>2, KeyType DEF Finalising!TypeOK
<1>8. SharedHeld'
  <2> SUFFICES ASSUME NEW d \in Finalisations, fpc'[d] = "sharing"
               PROVE  \E e \in store'[FinaliseKeyOf[d]] :
                        e.at = fclock /\ e.by # d /\ FinaliseBodyOf[e.by] = FinaliseBodyOf[d]
    BY <1>1 DEF SharedHeld
  <2>1. PICK e \in store[FinaliseKeyOf[d]] :
          e.at = fclock /\ e.by # d /\ FinaliseBodyOf[e.by] = FinaliseBodyOf[d]
    BY <1>2 DEF FInv, SharedHeld
  <2>2. CASE FinaliseKeyOf[d] = k
    <3>1. Entry \in store'[FinaliseKeyOf[d]] /\ e.by = c
      BY <1>1, <1>3, <2>1, <2>2 DEF Finalising!TypeOK
    <3> QED BY <2>1, <3>1 DEF Entry
  <2>3. CASE FinaliseKeyOf[d] # k
    BY <1>1, <1>3, <2>1, <2>3, KeyType DEF Finalising!TypeOK
  <2> QED BY <2>2, <2>3
<1>9. Numbered'
  BY <1>1 DEF FInv, Numbered
<1> QED BY <1>4, <1>5, <1>6, <1>7, <1>8, <1>9 DEF FInv

LEMMA ShareStep ==
  ASSUME FInv, NEW c \in Finalisations, Finalising!Share(c)
  PROVE  FInv'
<1>1. UNCHANGED <<mode, store, settlements, counter, fclock, life, issued>>
  BY DEF Finalising!Share, Finalising!memory
<1>2. /\ fpc[c] = "sharing" /\ fpc'[c] = "replayed"
      /\ \A d \in Finalisations \ {c} : fpc'[d] = fpc[d]
      /\ fpc' \in [Finalisations -> {"idle", "inflight", "sharing"} \cup Finalising!Answers]
  BY DEF Finalising!Share, Finalising!Goto, FInv, Finalising!FinaliseSound,
     Finalising!TypeOK, Finalising!Answers
<1>3. Finalising!FinaliseSound'
  BY <1>1, <1>2 DEF FInv, Finalising!FinaliseSound, Finalising!TypeOK,
     Finalising!OncePerWindow, Finalising!NothingReplaced
<1>4. HeldOnce'
  BY <1>1, <1>2 DEF FInv, HeldOnce, Finalising!FinaliseSound, Finalising!TypeOK
<1>5. Remembered' /\ WorkHeld' /\ SharedHeld' /\ Numbered'
  BY <1>1, <1>2 DEF FInv, Remembered, WorkHeld, SharedHeld, Numbered
<1> QED BY <1>3, <1>4, <1>5 DEF FInv

(* The clock moves, and the mode changes, only while no request waits.     *)
LEMMA IdleStep ==
  ASSUME FInv, Finalising!Tick \/ \E m \in Finalising!Modes : Finalising!SetMode(m)
  PROVE  FInv'
<1> USE BasAssumption
<1>1. /\ UNCHANGED <<store, settlements, counter, fpc, life, issued>>
      /\ mode' \in Finalising!Modes
      /\ fclock \in Int /\ fclock' \in 0..FinaliseMaxClock /\ fclock <= fclock'
      /\ Finalising!TypeOK
  BY DEF Finalising!Tick, Finalising!SetMode, Finalising!memory, FInv,
     Finalising!FinaliseSound, Finalising!TypeOK
<1>2. \A c \in Finalisations : fpc[c] # "inflight" /\ fpc[c] # "sharing"
  BY DEF Finalising!Tick, Finalising!SetMode, Finalising!Waiting
<1>3. Finalising!FinaliseSound'
  BY <1>1 DEF FInv, Finalising!FinaliseSound, Finalising!TypeOK,
     Finalising!OncePerWindow, Finalising!NothingReplaced
<1>4. HeldOnce'
  BY <1>1, <1>2 DEF FInv, HeldOnce, Finalising!TypeOK
<1>5. Remembered'
  BY <1>1, KeyType DEF FInv, Remembered, Finalising!TypeOK
<1>6. WorkHeld' /\ SharedHeld' /\ Numbered'
  BY <1>1, <1>2 DEF FInv, WorkHeld, SharedHeld, Numbered
<1> QED BY <1>3, <1>4, <1>5, <1>6 DEF FInv

(* A new process knows nothing of what earlier ones prepared.              *)
LEMMA RestartStep == ASSUME FInv, Finalising!Restart PROVE FInv'
<1> USE BasAssumption
<1>1. /\ life' = life + 1 /\ life' \in 0..MaxLives /\ mode' = "normal"
      /\ store' = [k \in Finalising!Keys |-> {}]
      /\ settlements' = {} /\ counter' = 0 /\ UNCHANGED <<fclock, issued>>
      /\ Finalising!TypeOK
  BY DEF Finalising!Restart, FInv, Finalising!FinaliseSound, Finalising!TypeOK
<1>2. /\ fpc' \in [Finalisations -> {"idle", "inflight", "sharing"} \cup Finalising!Answers]
      /\ \A c \in Finalisations : fpc'[c] # "inflight" /\ fpc'[c] # "sharing"
  BY <1>1 DEF Finalising!Restart, Finalising!TypeOK, Finalising!Waiting, Finalising!Answers
<1>3. \A i \in issued : i.life # life' /\ i.life <= life' /\ i.at <= fclock
  BY <1>1 DEF FInv, Remembered, Finalising!TypeOK
<1>4. IsFiniteSet(settlements') /\ Finalising!Cardinality(settlements') = 0
  BY <1>1, FS_EmptySet, SameCardinality
<1>5. Finalising!TypeOK'
  BY <1>1, <1>2 DEF Finalising!TypeOK, Finalising!Modes
<1>6. Finalising!OncePerWindow' /\ Finalising!NothingReplaced'
  BY <1>1, <1>3, <1>4 DEF FInv, Finalising!FinaliseSound,
     Finalising!OncePerWindow, Finalising!NothingReplaced
<1>7. HeldOnce' /\ Remembered' /\ WorkHeld' /\ SharedHeld' /\ Numbered'
  BY <1>1, <1>2, <1>3, <1>4 DEF HeldOnce, Remembered, WorkHeld, SharedHeld, Numbered
<1> QED BY <1>5, <1>6, <1>7 DEF FInv, Finalising!FinaliseSound

LEMMA FStep == FInv /\ [Finalising!Next]_finaliseVars => FInv'
<1> SUFFICES ASSUME FInv, [Finalising!Next]_finaliseVars PROVE FInv'
  OBVIOUS
<1>1. CASE \E c \in Finalisations : Finalising!Blocked(c) \/ Finalising!Answered(c)
  BY <1>1, AnsweredStep
<1>2. CASE \E c \in Finalisations : Finalising!Prepare(c)
  BY <1>2, PrepareStep
<1>3. CASE \E c \in Finalisations : Finalising!Complete(c)
  BY <1>3, CompleteStep
<1>4. CASE \E c \in Finalisations : Finalising!Share(c)
  BY <1>4, ShareStep
<1>5. CASE Finalising!Tick \/ \E m \in Finalising!Modes : Finalising!SetMode(m)
  BY <1>5, IdleStep
<1>6. CASE Finalising!Restart
  BY <1>6, RestartStep
<1>7. CASE UNCHANGED finaliseVars
  BY <1>7 DEF finaliseVars, FInv, Finalising!FinaliseSound, Finalising!TypeOK,
     Finalising!OncePerWindow, Finalising!NothingReplaced, HeldOnce, Remembered,
     WorkHeld, SharedHeld, Numbered
<1> QED BY <1>1, <1>2, <1>3, <1>4, <1>5, <1>6, <1>7 DEF Finalising!Next

LEMMA FInvariance == Finalising!Spec => []FInv
<1>1. FInv /\ [Finalising!Next]_Finalising!vars => FInv'
  BY FStep DEF Finalising!vars, finaliseVars, Finalising!memory
<1> QED BY <1>1, FInit, PTL DEF Finalising!Spec

(* However requests with one key overlap, and whenever the mode changes,   *)
(* keys expire or the process restarts, the finalise route prepares twice  *)
(* for a key in one life only if more than 24 hours lie between, and no    *)
(* settlement replaces another.                                            *)
THEOREM FinaliseSoundAlways == Finalising!Spec => []FinaliseSound
<1>1. FInv => FinaliseSound
  BY DEF FInv, FinaliseSound
<1> QED BY <1>1, FInvariance, PTL
-----------------------------------------------------------------------------
(* The steps of the route as steps of OncePerKey.                          *)
Views == <<Finalising!OwnerView, Finalising!AnswerView>>

LEMMA RefinesInit == Finalising!Init => Finalising!OnceEach!Init
<1> SUFFICES ASSUME Finalising!Init PROVE Finalising!OnceEach!Init
  OBVIOUS
<1>1. \A k \in Finalising!Keys : Finalising!Unexpired(k) = {}
  BY DEF Finalising!Init, Finalising!Unexpired
<1> QED BY <1>1 DEF Finalising!Init, Finalising!OnceEach!Init, Finalising!OnceEach!Keys,
     Finalising!Keys, Finalising!OwnerView, Finalising!AnswerView, Finalising!Shown,
     Finalising!Answers

(* A request that goes on or is told an answer OncePerKey may give it.     *)
LEMMA Tells ==
  ASSUME Finalising!TypeOK, NEW c \in Finalisations, NEW to, fpc[c] \notin Finalising!Answers,
         fpc' = [fpc EXCEPT ![c] = to], Finalising!OwnerView' = Finalising!OwnerView,
         \/ to \notin Finalising!Answers
         \/ Finalising!OnceEach!Told(c, Finalising!Shown(to))
  PROVE  Finalising!OnceEach!Tell(c) \/ UNCHANGED Views
<1>1. Finalising!AnswerView' = [Finalising!AnswerView EXCEPT ![c] = Finalising!Shown(to)]
  BY DEF Finalising!AnswerView, Finalising!TypeOK, Finalising!Shown
<1>2. Finalising!AnswerView[c] = "open"
  BY DEF Finalising!AnswerView, Finalising!Shown, Finalising!Answers
<1>3. CASE to \notin Finalising!Answers
  <2>1. Finalising!Shown(to) = "open"
    BY <1>3 DEF Finalising!Shown, Finalising!Answers
  <2>2. Finalising!AnswerView' = Finalising!AnswerView
    BY <1>1, <1>2, <2>1 DEF Finalising!AnswerView
  <2> QED BY <2>2 DEF Views
<1>4. CASE to \in Finalising!Answers /\ Finalising!OnceEach!Told(c, Finalising!Shown(to))
  <2>1. Finalising!Shown(to) \in {"created", "replayed", "refused", "failed"}
    BY <1>4 DEF Finalising!Shown, Finalising!Answers
  <2> QED BY <1>1, <1>2, <1>4, <2>1 DEF Finalising!OnceEach!Tell
<1> QED BY <1>3, <1>4

(* Who owns a key, by the entries that are not older than 24 hours.        *)
LEMMA OwnerIs ==
  ASSUME FInv, NEW c \in Finalisations
  PROVE  /\ Finalising!OwnerView[FinaliseKeyOf[c]] = {e.by : e \in Finalising!Held(c)}
         /\ \A e \in store[FinaliseKeyOf[c]] : e.at = fclock =>
              Finalising!OwnerView[FinaliseKeyOf[c]] = {e.by}
<1>1. Finalising!OwnerView[FinaliseKeyOf[c]] = {e.by : e \in Finalising!Held(c)}
  BY KeyType DEF Finalising!OwnerView, Finalising!Held
<1>2. ASSUME NEW e \in store[FinaliseKeyOf[c]], e.at = fclock
      PROVE  Finalising!Held(c) = {e}
  <2>1. fclock - fclock <= TTL
    BY BasAssumption DEF FInv, Finalising!FinaliseSound, Finalising!TypeOK
  <2>2. \A f \in store[FinaliseKeyOf[c]] : f = e
    BY KeyType DEF FInv, HeldOnce
  <2> QED BY <1>2, <2>1, <2>2, BasAssumption
     DEF Finalising!Held, Finalising!Unexpired, Finalising!Expired, FInv,
         Finalising!FinaliseSound, Finalising!TypeOK
<1> QED BY <1>1, <1>2

LEMMA AnswersRefine ==
  ASSUME FInv, NEW c \in Finalisations,
         Finalising!Blocked(c) \/ Finalising!Answered(c) \/ Finalising!Share(c)
  PROVE  Finalising!OnceEach!Tell(c) \/ UNCHANGED Views
<1>1. Finalising!TypeOK /\ FinaliseKeyOf[c] \in Finalising!Keys
  BY KeyType DEF FInv, Finalising!FinaliseSound
<1>2. Finalising!OwnerView' = Finalising!OwnerView
  <2>1. UNCHANGED fclock /\ (store' = store \/ store' = Finalising!Pruned)
    BY DEF Finalising!Blocked, Finalising!Answered, Finalising!Share, Finalising!memory
  <2>2. \A k \in Finalising!Keys : Finalising!Unexpired(k)' = Finalising!Unexpired(k)
    BY <2>1 DEF Finalising!Unexpired, Finalising!Expired, Finalising!Pruned
  <2> QED BY <2>2 DEF Finalising!OwnerView
<1>3. CASE Finalising!Blocked(c)
  BY <1>1, <1>2, <1>3, Tells DEF Finalising!Blocked, Finalising!Goto, Finalising!Answers,
     Finalising!Shown, Finalising!OnceEach!Told
<1>4. CASE Finalising!Answered(c)
  <2>1. PICK e \in Finalising!Held(c) :
          Finalising!Goto(c, "idle", IF ~Finalising!SameBody(c) THEN "refused"
                                     ELSE IF e.done THEN "replayed" ELSE "sharing")
    BY <1>4 DEF Finalising!Answered
  <2>2. e.by \in Finalising!OwnerView[FinaliseKeyOf[c]]
    BY OwnerIs
  <2>3. e.by # c
    BY <1>1, <2>1 DEF Finalising!Held, Finalising!Unexpired, Finalising!Goto, FInv, HeldOnce
  <2>4. Finalising!SameBody(c) => FinaliseBodyOf[e.by] = FinaliseBodyOf[c]
    BY DEF Finalising!SameBody
  <2> QED BY <1>1, <1>2, <2>1, <2>2, <2>3, <2>4, Tells
     DEF Finalising!Goto, Finalising!Answers, Finalising!Shown, Finalising!OnceEach!Told
<1>5. CASE Finalising!Share(c)
  <2>1. fpc[c] = "sharing" /\ fpc' = [fpc EXCEPT ![c] = "replayed"]
    BY <1>5 DEF Finalising!Share, Finalising!Goto
  <2>2. PICK e \in store[FinaliseKeyOf[c]] :
          e.at = fclock /\ e.by # c /\ FinaliseBodyOf[e.by] = FinaliseBodyOf[c]
    BY <2>1 DEF FInv, SharedHeld
  <2>3. e.by \in Finalising!OwnerView[FinaliseKeyOf[c]]
    BY <2>2, OwnerIs
  <2> QED BY <1>1, <1>2, <2>1, <2>2, <2>3, Tells
     DEF Finalising!Answers, Finalising!Shown, Finalising!OnceEach!Told
<1> QED BY <1>3, <1>4, <1>5

LEMMA PrepareRefines ==
  ASSUME FInv, NEW c \in Finalisations, Finalising!Prepare(c)
  PROVE  Finalising!OnceEach!Perform(c)
<1> USE BasAssumption
<1> DEFINE k == FinaliseKeyOf[c]
<1>1. /\ Finalising!TypeOK /\ k \in Finalising!Keys /\ fclock \in Int
      /\ fpc[c] = "idle" /\ fpc' = [fpc EXCEPT ![c] = "inflight"]
      /\ Finalising!Held(c) = {} /\ UNCHANGED fclock
      /\ store' = [Finalising!Pruned EXCEPT ![k] = {[by |-> c, at |-> fclock, done |-> FALSE]}]
  BY KeyType DEF FInv, Finalising!FinaliseSound, Finalising!TypeOK, Finalising!Prepare,
     Finalising!Goto, Finalising!Claim
<1>2. Finalising!OwnerView[k] = {}
  BY <1>1, OwnerIs
<1>3. \A l \in Finalising!Keys \ {k} : Finalising!Unexpired(l)' = Finalising!Unexpired(l)
  BY <1>1 DEF Finalising!Unexpired, Finalising!Expired, Finalising!Pruned
<1>4. Finalising!Unexpired(k)' = {[by |-> c, at |-> fclock, done |-> FALSE]}
  <2>1. store'[k] = {[by |-> c, at |-> fclock, done |-> FALSE]}
    BY <1>1 DEF Finalising!Pruned
  <2>2. ~(fclock - fclock > TTL)
    BY <1>1
  <2> QED BY <1>1, <2>1, <2>2 DEF Finalising!Unexpired, Finalising!Expired
<1>5. Finalising!OwnerView' = [Finalising!OwnerView EXCEPT ![k] = {c}]
  <2>1. {e.by : e \in Finalising!Unexpired(k)'} = {c}
    BY <1>4
  <2>2. \A l \in Finalising!Keys : Finalising!OwnerView'[l] =
          IF l = k THEN {c} ELSE Finalising!OwnerView[l]
    BY <1>3, <2>1 DEF Finalising!OwnerView
  <2> QED BY <2>2 DEF Finalising!OwnerView
<1>6. Finalising!AnswerView' = Finalising!AnswerView /\ Finalising!AnswerView[c] = "open"
  BY <1>1 DEF Finalising!AnswerView, Finalising!Shown, Finalising!Answers, Finalising!TypeOK
<1> QED BY <1>2, <1>5, <1>6 DEF Finalising!OnceEach!Perform

LEMMA CompleteRefines ==
  ASSUME FInv, NEW c \in Finalisations, Finalising!Complete(c)
  PROVE  Finalising!OnceEach!Tell(c)
<1> USE BasAssumption
<1> DEFINE k == FinaliseKeyOf[c]
<1>1. /\ Finalising!TypeOK /\ k \in Finalising!Keys /\ fclock \in Int
      /\ fpc[c] = "inflight" /\ fpc' = [fpc EXCEPT ![c] = "created"]
      /\ UNCHANGED fclock
      /\ store' = [store EXCEPT ![k] = {[by |-> c, at |-> fclock, done |-> TRUE]}]
  BY KeyType DEF FInv, Finalising!FinaliseSound, Finalising!TypeOK, Finalising!Complete,
     Finalising!Goto, Finalising!Claim
<1>2. [by |-> c, at |-> fclock, done |-> FALSE] \in store[k]
  BY <1>1 DEF FInv, WorkHeld
<1>3. Finalising!OwnerView[k] = {c}
  BY <1>2, OwnerIs
<1>4. \A l \in Finalising!Keys \ {k} : Finalising!Unexpired(l)' = Finalising!Unexpired(l)
  BY <1>1 DEF Finalising!Unexpired, Finalising!Expired
<1>5. Finalising!Unexpired(k)' = {[by |-> c, at |-> fclock, done |-> TRUE]}
  <2>1. store'[k] = {[by |-> c, at |-> fclock, done |-> TRUE]}
    BY <1>1 DEF Finalising!TypeOK
  <2>2. ~(fclock - fclock > TTL)
    BY <1>1
  <2> QED BY <1>1, <2>1, <2>2 DEF Finalising!Unexpired, Finalising!Expired
<1>6. Finalising!OwnerView' = Finalising!OwnerView
  <2>1. {e.by : e \in Finalising!Unexpired(k)'} = {c}
    BY <1>5
  <2>2. \A l \in Finalising!Keys : Finalising!OwnerView'[l] = Finalising!OwnerView[l]
    BY <1>3, <1>4, <2>1 DEF Finalising!OwnerView
  <2> QED BY <2>2 DEF Finalising!OwnerView
<1>7. /\ Finalising!AnswerView' = [Finalising!AnswerView EXCEPT ![c] = "created"]
      /\ Finalising!AnswerView[c] = "open"
  BY <1>1 DEF Finalising!AnswerView, Finalising!Shown, Finalising!Answers, Finalising!TypeOK
<1> QED BY <1>3, <1>6, <1>7 DEF Finalising!OnceEach!Tell, Finalising!OnceEach!Told

(* What is older than 24 hours, and all of it at a restart, is forgotten.  *)
LEMMA ForgetRefines ==
  ASSUME FInv, Finalising!Tick \/ Finalising!Restart
  PROVE  Finalising!OnceEach!Forget
<1> USE BasAssumption
<1>1. Finalising!TypeOK /\ fclock \in Int
  BY DEF FInv, Finalising!FinaliseSound, Finalising!TypeOK
<1>2. \A k \in Finalising!Keys :
        \/ Finalising!Unexpired(k)' = {}
        \/ Finalising!Unexpired(k)' = Finalising!Unexpired(k)
  <2>1. CASE Finalising!Tick
    <3>1. fclock' = fclock + 1 /\ store' = store
      BY <2>1 DEF Finalising!Tick, Finalising!memory
    <3>2. \A k \in Finalising!Keys : \A e \in store[k] : fclock' - e.at <= TTL => fclock - e.at <= TTL
      BY <1>1, <3>1 DEF Finalising!TypeOK
    <3>3. \A k \in Finalising!Keys : Finalising!Unexpired(k)' \subseteq Finalising!Unexpired(k)
      BY <1>1, <3>1, <3>2 DEF Finalising!Unexpired, Finalising!Expired, Finalising!TypeOK
    <3>4. \A k \in Finalising!Keys : \A e, f \in Finalising!Unexpired(k) : e = f
      BY DEF Finalising!Unexpired, FInv, HeldOnce
    <3> QED BY <3>3, <3>4
  <2>2. CASE Finalising!Restart
    <3>1. \A k \in Finalising!Keys : store'[k] = {}
      BY <2>2 DEF Finalising!Restart
    <3> QED BY <3>1 DEF Finalising!Unexpired
  <2> QED BY <2>1, <2>2
<1>3. \E K \in SUBSET Finalising!Keys :
        Finalising!OwnerView' =
          [k \in Finalising!Keys |-> IF k \in K THEN {} ELSE Finalising!OwnerView[k]]
  <2> DEFINE K == {k \in Finalising!Keys : Finalising!Unexpired(k)' = {}}
  <2>1. \A k \in K : {e.by : e \in Finalising!Unexpired(k)'} = {}
    OBVIOUS
  <2>2. \A k \in Finalising!Keys : Finalising!OwnerView'[k] =
          IF k \in K THEN {} ELSE Finalising!OwnerView[k]
    BY <1>2, <2>1 DEF Finalising!OwnerView
  <2>3. K \in SUBSET Finalising!Keys
    OBVIOUS
  <2> HIDE DEF K
  <2> QED BY <2>2, <2>3 DEF Finalising!OwnerView
<1>4. \E C \in SUBSET {c \in Finalisations : Finalising!AnswerView[c] = "open"} :
        Finalising!AnswerView' =
          [c \in Finalisations |-> IF c \in C THEN "failed" ELSE Finalising!AnswerView[c]]
  <2>1. CASE Finalising!Tick
    <3>0. PICK C \in SUBSET {c \in Finalisations : Finalising!AnswerView[c] = "open"} :
            C = {}
      OBVIOUS
    <3>1. Finalising!AnswerView' =
            [c \in Finalisations |-> IF c \in C THEN "failed" ELSE Finalising!AnswerView[c]]
      BY <2>1, <3>0 DEF Finalising!Tick, Finalising!AnswerView, Finalising!Shown
    <3> QED BY <3>1
  <2>2. CASE Finalising!Restart
    <3>1. \A c \in Finalising!Waiting : Finalising!AnswerView[c] = "open"
      BY DEF Finalising!AnswerView, Finalising!Waiting, Finalising!Shown, Finalising!Answers
    <3>2. Finalising!AnswerView' =
            [c \in Finalisations |->
              IF c \in Finalising!Waiting THEN "failed" ELSE Finalising!AnswerView[c]]
      BY <2>2 DEF Finalising!Restart, Finalising!AnswerView, Finalising!Shown,
          Finalising!Answers
    <3> QED BY <3>1, <3>2 DEF Finalising!Waiting
  <2> QED BY <2>1, <2>2
<1> QED BY <1>3, <1>4
     DEF Finalising!OnceEach!Forget, Finalising!OnceEach!Keys, Finalising!Keys

LEMMA Refines ==
  FInv /\ [Finalising!Next]_finaliseVars => [Finalising!OnceEach!Next]_Views
<1> SUFFICES ASSUME FInv, [Finalising!Next]_finaliseVars
             PROVE  [Finalising!OnceEach!Next]_Views
  OBVIOUS
<1> USE DEF Finalising!OnceEach!Next
<1>1. CASE \E c \in Finalisations :
             Finalising!Blocked(c) \/ Finalising!Answered(c) \/ Finalising!Share(c)
  BY <1>1, AnswersRefine
<1>2. CASE \E c \in Finalisations : Finalising!Prepare(c)
  BY <1>2, PrepareRefines
<1>3. CASE \E c \in Finalisations : Finalising!Complete(c)
  BY <1>3, CompleteRefines
<1>4. CASE Finalising!Tick \/ Finalising!Restart
  BY <1>4, ForgetRefines
<1>5. CASE \/ \E m \in Finalising!Modes : Finalising!SetMode(m)
           \/ UNCHANGED finaliseVars
  <2>1. UNCHANGED <<store, fpc, fclock>>
    BY <1>5 DEF Finalising!SetMode, finaliseVars
  <2> QED BY <2>1 DEF Views, Finalising!OwnerView, Finalising!AnswerView,
     Finalising!Unexpired, Finalising!Expired, Finalising!Shown
<1> QED BY <1>1, <1>2, <1>3, <1>4, <1>5 DEF Finalising!Next

(* For any requests, keys and bodies: sharing, replay, expiry, the service *)
(* mode and restarts implement keys that are performed once until they are *)
(* forgotten, every other call being told the performed call's answer, a   *)
(* refusal or an error.                                                    *)
THEOREM FinaliseOncePerKeyAlways == Finalising!Spec => FinaliseOncePerKey
<1>1. FInv /\ [Finalising!Next]_Finalising!vars =>
        [Finalising!OnceEach!Next]_<<Finalising!OwnerView, Finalising!AnswerView>>
  BY Refines DEF Views, Finalising!vars, finaliseVars, Finalising!memory
<1> QED BY <1>1, RefinesInit, FInvariance, PTL
     DEF Finalising!Spec, FinaliseOncePerKey, Finalising!ImplementsOncePerKey,
         Finalising!OnceEach!Spec
-----------------------------------------------------------------------------
(* Settlement.  What a call has read of the PAYGW is no more than is owed  *)
(* now, and of the GST no more but for what it fell by since; so the sum,  *)
(* once both are read, exceeds what was payable by no more than that and   *)
(* what has been remitted, which is read last.                             *)
Payable(b) == Settling!Payable(b)
Book(c) == Settling!Book(c)
Reading(c) == spc[c] \in {"reading", "summed"}

NotBegun == \A c \in Preparations : spc[c] = "idle" => read[c] = Settling!Unread
ReadIsOwed ==
  \A c \in Preparations : spc[c] = "reading" =>
    /\ read[c]["PAYGW"] # Settling!Nothing => read[c]["PAYGW"] <= owed[Book(c)]["PAYGW"]
    /\ read[c]["GST"] # Settling!Nothing =>
         read[c]["GST"] <= owed[Book(c)]["GST"] + credited[c]
SumIsPayable ==
  \A c \in Preparations : spc[c] = "summed" =>
    read[c]["PAYGW"] + read[c]["GST"] <= most[c] + credited[c] + remitted[Book(c)]
MostSoFar == \A c \in Preparations : Reading(c) => Payable(Book(c)) <= most[c]
NetIsPayable ==
  \A c \in Preparations : spc[c] \in {"mandate", "create", "prepared"} =>
    Settling!NetPayable(c) <= most[c] + credited[c]
MandatesAsked ==
  /\ \A c \in Preparations : c \in mandates \/ spc[c] = "mandate" => Bank
  /\ \A c \in mandates : spc[c] \in {"create", "failed", "prepared"}

SInv ==
  /\ Settling!SettlementSound
  /\ NotBegun /\ ReadIsOwed /\ SumIsPayable /\ MostSoFar /\ NetIsPayable /\ MandatesAsked
-----------------------------------------------------------------------------
LEMMA BookType ==
  ASSUME SInv, NEW c \in Preparations
  PROVE  /\ Book(c) \in Settling!Books
         /\ read[c] \in [PAYGW : Int, GST : Int, ledger : Int]
         /\ read[c]["PAYGW"] \in Int /\ read[c]["GST"] \in Int /\ read[c].ledger \in Int
         /\ most[c] \in Int /\ credited[c] \in Nat
<1>1. Book(c) \in Settling!Books
  BY DEF Book, Settling!Books
<1>2. /\ read[c] \in [PAYGW : Int, GST : Int, ledger : Int]
      /\ most[c] \in Int /\ credited[c] \in Nat
  BY DEF SInv, Settling!SettlementSound, Settling!TypeOK
<1> QED BY <1>1, <1>2

LEMMA PayableType ==
  ASSUME SInv, NEW b \in Settling!Books
  PROVE  /\ owed[b] \in [PAYGW : 0..MaxCents, GST : -MaxCents..MaxCents]
         /\ owed[b]["PAYGW"] \in Int /\ owed[b]["GST"] \in Int
         /\ remitted[b] \in 0..MaxCents /\ Payable(b) \in Int
         /\ Payable(b) = owed[b]["PAYGW"] + owed[b]["GST"] - remitted[b]
<1>1. owed[b] \in [PAYGW : 0..MaxCents, GST : -MaxCents..MaxCents]
  BY DEF SInv, Settling!SettlementSound, Settling!TypeOK
<1>2. owed[b]["PAYGW"] \in Int /\ owed[b]["GST"] \in Int
  BY <1>1, BasAssumption
<1>3. remitted[b] \in 0..MaxCents
  BY DEF SInv, Settling!SettlementSound, Settling!TypeOK
<1>4. Payable(b) = owed[b]["PAYGW"] + owed[b]["GST"] - remitted[b]
  BY DEF Payable, Settling!Payable
<1> QED BY <1>1, <1>2, <1>3, <1>4, BasAssumption

LEMMA SInit == Settling!Init => SInv
<1> SUFFICES ASSUME Settling!Init PROVE SInv
  OBVIOUS
<1> USE BasAssumption DEF Settling!Init
<1>1. Settling!TypeOK
  <2>1. [PAYGW |-> 0, GST |-> 0] \in [PAYGW : 0..MaxCents, GST : -MaxCents..MaxCents]
    OBVIOUS
  <2>2. Settling!Unread \in [PAYGW : Int, GST : Int, ledger : Int]
    BY DEF Settling!Unread, Settling!Nothing
  <2> QED BY <2>1, <2>2 DEF Settling!TypeOK
<1>2. Settling!NeverOverstated /\ Settling!MandateAccounted
  BY DEF Settling!NeverOverstated, Settling!MandateAccounted
<1> QED BY <1>1, <1>2 DEF SInv, Settling!SettlementSound, NotBegun, ReadIsOwed,
     SumIsPayable, MostSoFar, Reading, NetIsPayable, MandatesAsked

(* Whatever leaves the calls alone and lowers neither history, nor raises  *)
(* what a call may still be asked to subtract, keeps what they have read.  *)
LEMMA RowsStep ==
  ASSUME SInv,
         UNCHANGED <<trustAccounts, agreements, instructions, mandates, spc, read,
                     faults, faulted>>,
         owed' \in [Settling!Books -> [PAYGW : 0..MaxCents, GST : -MaxCents..MaxCents]],
         remitted' \in [Settling!Books -> 0..MaxCents],
         most' \in [Preparations -> Int], credited' \in [Preparations -> Nat],
         \A c \in Preparations :
           /\ most[c] <= most'[c] /\ credited[c] <= credited'[c]
           /\ remitted[Book(c)] <= remitted'[Book(c)]
           /\ owed[Book(c)]["PAYGW"] <= owed'[Book(c)]["PAYGW"],
         ReadIsOwed', MostSoFar'
  PROVE  SInv'
<1> USE BasAssumption
<1>1. \A c \in Preparations :
        /\ most[c] \in Int /\ most'[c] \in Int /\ credited[c] \in Int /\ credited'[c] \in Int
        /\ remitted[Book(c)] \in Int /\ remitted'[Book(c)] \in Int
        /\ read[c]["PAYGW"] \in Int /\ read[c]["GST"] \in Int /\ read[c].ledger \in Int
  BY BookType, PayableType
<1>2. Settling!TypeOK'
  BY DEF SInv, Settling!SettlementSound, Settling!TypeOK
<1>3. SumIsPayable'
  <2> SUFFICES ASSUME NEW c \in Preparations, spc[c] = "summed"
               PROVE  read[c]["PAYGW"] + read[c]["GST"] <=
                        most'[c] + credited'[c] + remitted'[Book(c)]
    BY DEF SumIsPayable, Book
  <2> QED BY <1>1 DEF SInv, SumIsPayable
<1>4. NetIsPayable'
  <2> SUFFICES ASSUME NEW c \in Preparations, spc[c] \in {"mandate", "create", "prepared"}
               PROVE  Settling!NetPayable(c) <= most'[c] + credited'[c]
    BY DEF NetIsPayable, Settling!NetPayable
  <2>1. Settling!NetPayable(c) \in Int
    BY <1>1 DEF Settling!NetPayable
  <2> QED BY <1>1, <2>1 DEF SInv, NetIsPayable
<1>5. Settling!NeverOverstated'
  BY <1>4 DEF NetIsPayable, Settling!NeverOverstated
<1>6. Settling!MandateAccounted' /\ MandatesAsked' /\ NotBegun'
  BY DEF SInv, Settling!SettlementSound, Settling!MandateAccounted, MandatesAsked, NotBegun,
     Settling!Unread, Settling!Nothing
<1> QED BY <1>2, <1>3, <1>4, <1>5, <1>6 DEF SInv, Settling!SettlementSound

(* A row arrives: what is payable grows, and what a reading call may ask.  *)
LEMMA ArriveStep ==
  ASSUME SInv, NEW b \in Settling!Books, NEW k \in Settling!Kinds, Settling!Arrive(b, k)
  PROVE  SInv'
<1> USE BasAssumption
<1>1. UNCHANGED <<remitted, trustAccounts, agreements, instructions, mandates, spc, read,
                  credited, faults, faulted>>
  BY DEF Settling!Arrive, Settling!tables
<1>2. /\ owed[b][k] < MaxCents
      /\ owed' = [owed EXCEPT ![b] = owed'[b]]
      /\ owed'[b] = [owed[b] EXCEPT ![k] = @ + 1]
  BY DEF Settling!Arrive, SInv, Settling!SettlementSound, Settling!TypeOK
<1>3. /\ owed'[b] \in [PAYGW : 0..MaxCents, GST : -MaxCents..MaxCents]
      /\ owed'[b][k] = owed[b][k] + 1
      /\ \A l \in Settling!Kinds \ {k} : owed'[b][l] = owed[b][l]
  BY <1>2, PayableType DEF Settling!Kinds
<1>4. /\ owed' \in [Settling!Books -> [PAYGW : 0..MaxCents, GST : -MaxCents..MaxCents]]
      /\ \A d \in Settling!Books \ {b} : owed'[d] = owed[d]
  BY <1>2, <1>3 DEF SInv, Settling!SettlementSound, Settling!TypeOK
<1>5. Payable(b)' = Payable(b) + 1
  BY <1>1, <1>3, PayableType DEF Payable, Settling!Payable, Settling!Kinds
<1>6. \A d \in Settling!Books \ {b} : Payable(d)' = Payable(d)
  BY <1>1, <1>4 DEF Payable, Settling!Payable
<1>7. \A c \in Preparations :
        most'[c] = IF Book(c) = b /\ Reading(c) /\ most[c] <= Payable(b)
                   THEN Payable(b) + 1 ELSE most[c]
  BY DEF Settling!Arrive, Book, Reading, Payable
<1>8. /\ most' \in [Preparations -> Int]
      /\ \A c \in Preparations : most[c] <= most'[c]
  <2>1. most' = [c \in Preparations |-> most'[c]]
    BY DEF Settling!Arrive
  <2>2. \A c \in Preparations : most'[c] \in Int /\ most[c] <= most'[c]
    BY <1>7, PayableType, BookType
  <2> QED BY <2>1, <2>2
<1>9. \A d \in Settling!Books, l \in Settling!Kinds :
        owed[d][l] <= owed'[d][l] /\ owed'[d][l] \in Int /\ owed[d][l] \in Int
  BY <1>3, <1>4, PayableType DEF Settling!Kinds
<1>10. ReadIsOwed'
  <2> SUFFICES ASSUME NEW c \in Preparations, spc[c] = "reading"
               PROVE  /\ read[c]["PAYGW"] # Settling!Nothing =>
                           read[c]["PAYGW"] <= owed'[Book(c)]["PAYGW"]
                      /\ read[c]["GST"] # Settling!Nothing =>
                           read[c]["GST"] <= owed'[Book(c)]["GST"] + credited[c]
    BY <1>1 DEF ReadIsOwed, Book, Settling!Nothing
  <2> QED BY <1>9, BookType DEF SInv, ReadIsOwed, Settling!Kinds
<1>11. MostSoFar'
  <2> SUFFICES ASSUME NEW c \in Preparations, Reading(c) PROVE Payable(Book(c))' <= most'[c]
    BY <1>1 DEF MostSoFar, Reading
  <2>1. CASE Book(c) = b
    <3>1. Payable(Book(c))' = Payable(b) + 1
      BY <1>5, <2>1 DEF Book
    <3> QED BY <1>7, <2>1, <3>1, BookType, PayableType
  <2>2. CASE Book(c) # b
    <3>1. Payable(Book(c))' = Payable(Book(c))
      BY <1>6, <2>2, BookType DEF Book
    <3> QED BY <1>7, <2>2, <3>1 DEF SInv, MostSoFar
  <2> QED BY <2>1, <2>2
<1>12. \A c \in Preparations :
         /\ remitted[Book(c)] <= remitted'[Book(c)] /\ credited[c] <= credited'[c]
         /\ owed[Book(c)]["PAYGW"] <= owed'[Book(c)]["PAYGW"]
  BY <1>1, <1>9, BookType, PayableType DEF Settling!Kinds
<1>13. credited' \in [Preparations -> Nat] /\ remitted' \in [Settling!Books -> 0..MaxCents]
  BY <1>1 DEF SInv, Settling!SettlementSound, Settling!TypeOK
<1> QED BY <1>1, <1>4, <1>8, <1>10, <1>11, <1>12, <1>13, RowsStep

(* GST falls: a call that has read it and not the PAYGW has it credited.   *)
LEMMA CreditStep ==
  ASSUME SInv, NEW b \in Settling!Books, Settling!Credit(b)
  PROVE  SInv'
<1> USE BasAssumption
<1>1. UNCHANGED <<remitted, trustAccounts, agreements, instructions, mandates, spc, read,
                  most, faults, faulted>>
  BY DEF Settling!Credit, Settling!tables
<1>2. /\ owed[b]["GST"] > -MaxCents
      /\ owed' = [owed EXCEPT ![b] = owed'[b]]
      /\ owed'[b] = [owed[b] EXCEPT !["GST"] = @ - 1]
  BY DEF Settling!Credit, SInv, Settling!SettlementSound, Settling!TypeOK
<1>3. /\ owed'[b] \in [PAYGW : 0..MaxCents, GST : -MaxCents..MaxCents]
      /\ owed'[b]["GST"] = owed[b]["GST"] - 1
      /\ owed'[b]["PAYGW"] = owed[b]["PAYGW"]
  BY <1>2, PayableType
<1>4. /\ owed' \in [Settling!Books -> [PAYGW : 0..MaxCents, GST : -MaxCents..MaxCents]]
      /\ \A d \in Settling!Books \ {b} : owed'[d] = owed[d]
  BY <1>2, <1>3 DEF SInv, Settling!SettlementSound, Settling!TypeOK
<1>5. Payable(b)' = Payable(b) - 1
  BY <1>1, <1>3, PayableType DEF Payable, Settling!Payable
<1>6. \A d \in Settling!Books \ {b} : Payable(d)' = Payable(d)
  BY <1>1, <1>4 DEF Payable, Settling!Payable
<1>7. \A c \in Preparations :
        credited'[c] = IF /\ Book(c) = b /\ Settling!Between(c)
                          /\ read[c]["GST"] - owed[b]["GST"] >= credited[c]
                       THEN read[c]["GST"] - owed[b]["GST"] + 1 ELSE credited[c]
  BY DEF Settling!Credit, Book
<1>8. /\ credited' \in [Preparations -> Nat]
      /\ \A c \in Preparations : credited[c] <= credited'[c]
  <2>1. credited' = [c \in Preparations |-> credited'[c]]
    BY DEF Settling!Credit
  <2>2. \A c \in Preparations : credited'[c] \in Nat /\ credited[c] <= credited'[c]
    BY <1>7, PayableType, BookType
  <2> QED BY <2>1, <2>2
<1>9. ReadIsOwed'
  <2> SUFFICES ASSUME NEW c \in Preparations, spc[c] = "reading"
               PROVE  /\ read[c]["PAYGW"] # Settling!Nothing =>
                           read[c]["PAYGW"] <= owed'[Book(c)]["PAYGW"]
                      /\ read[c]["GST"] # Settling!Nothing =>
                           read[c]["GST"] <= owed'[Book(c)]["GST"] + credited'[c]
    BY <1>1 DEF ReadIsOwed, Book, Settling!Nothing
  <2>1. CASE Book(c) = b
    <3>1. Settling!Between(c) <=> read[c]["GST"] # Settling!Nothing
      BY DEF Settling!Between
    <3>2. read[c]["GST"] # Settling!Nothing => read[c]["GST"] <= owed[b]["GST"] + credited[c]
      BY <2>1 DEF SInv, ReadIsOwed
    <3>3. read[c]["GST"] # Settling!Nothing =>
            read[c]["GST"] <= owed[b]["GST"] - 1 + credited'[c]
      BY <1>7, <2>1, <3>1, <3>2, BookType, PayableType
    <3> QED BY <1>3, <2>1, <3>3 DEF SInv, ReadIsOwed
  <2>2. CASE Book(c) # b
    <3>1. owed'[Book(c)] = owed[Book(c)] /\ credited'[c] = credited[c]
      BY <1>4, <1>7, <2>2, BookType
    <3> QED BY <3>1 DEF SInv, ReadIsOwed
  <2> QED BY <2>1, <2>2
<1>10. MostSoFar'
  <2> SUFFICES ASSUME NEW c \in Preparations, Reading(c) PROVE Payable(Book(c))' <= most[c]
    BY <1>1 DEF MostSoFar, Reading
  <2>1. CASE Book(c) = b
    <3>1. Payable(Book(c))' = Payable(b) - 1
      BY <1>5, <2>1 DEF Book
    <3> QED BY <2>1, <3>1, BookType, PayableType DEF SInv, MostSoFar
  <2>2. CASE Book(c) # b
    <3>1. Payable(Book(c))' = Payable(Book(c))
      BY <1>6, <2>2, BookType DEF Book
    <3> QED BY <2>2, <3>1 DEF SInv, MostSoFar
  <2> QED BY <2>1, <2>2
<1>11. \A c \in Preparations :
         /\ most[c] <= most'[c] /\ remitted[Book(c)] <= remitted'[Book(c)]
         /\ owed[Book(c)]["PAYGW"] <= owed'[Book(c)]["PAYGW"]
  <2> SUFFICES ASSUME NEW c \in Preparations
               PROVE  /\ most[c] <= most'[c] /\ remitted[Book(c)] <= remitted'[Book(c)]
                      /\ owed[Book(c)]["PAYGW"] <= owed'[Book(c)]["PAYGW"]
    OBVIOUS
  <2>1. owed'[Book(c)]["PAYGW"] = owed[Book(c)]["PAYGW"]
    BY <1>3, <1>4, BookType
  <2> QED BY <1>1, <2>1, BookType, PayableType
<1>12. most' \in [Preparations -> Int] /\ remitted' \in [Settling!Books -> 0..MaxCents]
  BY <1>1 DEF SInv, Settling!SettlementSound, Settling!TypeOK
<1> QED BY <1>1, <1>4, <1>8, <1>9, <1>10, <1>11, <1>12, RowsStep

LEMMA RemitStep ==
  ASSUME SInv, NEW b \in Settling!Books, Settling!Remit(b)
  PROVE  SInv'
<1> USE BasAssumption
<1>1. UNCHANGED <<owed, trustAccounts, agreements, instructions, mandates, spc, read, most,
                  credited, faults, faulted>>
  BY DEF Settling!Remit, Settling!tables, Settling!history
<1>2. /\ remitted' \in [Settling!Books -> 0..MaxCents]
      /\ remitted'[b] = remitted[b] + 1
      /\ \A d \in Settling!Books \ {b} : remitted'[d] = remitted[d]
  BY DEF Settling!Remit, SInv, Settling!SettlementSound, Settling!TypeOK
<1>3. \A d \in Settling!Books : remitted[d] <= remitted'[d]
  BY <1>2, PayableType
<1>4. \A d \in Settling!Books : Payable(d)' <= Payable(d) /\ Payable(d)' \in Int
  <2> SUFFICES ASSUME NEW d \in Settling!Books
               PROVE  Payable(d)' <= Payable(d) /\ Payable(d)' \in Int
    OBVIOUS
  <2>1. Payable(d)' = owed[d]["PAYGW"] + owed[d]["GST"] - remitted'[d]
    BY <1>1 DEF Payable, Settling!Payable
  <2>2. remitted'[d] \in Int
    BY <1>2
  <2> QED BY <1>3, <2>1, <2>2, PayableType
<1>5. ReadIsOwed'
  BY <1>1 DEF SInv, ReadIsOwed, Book, Settling!Nothing
<1>6. MostSoFar'
  <2> SUFFICES ASSUME NEW c \in Preparations, Reading(c) PROVE Payable(Book(c))' <= most[c]
    BY <1>1 DEF MostSoFar, Reading
  <2>1. \A d \in Settling!Books : d = Book(c) => Payable(Book(c))' = Payable(d)'
    BY DEF Book
  <2> QED BY <1>4, <2>1, BookType, PayableType DEF SInv, MostSoFar
<1>7. \A c \in Preparations :
        /\ most[c] <= most'[c] /\ credited[c] <= credited'[c]
        /\ remitted[Book(c)] <= remitted'[Book(c)]
        /\ owed[Book(c)]["PAYGW"] <= owed'[Book(c)]["PAYGW"]
  BY <1>1, <1>3, BookType, PayableType
<1>8. /\ most' \in [Preparations -> Int] /\ credited' \in [Preparations -> Nat]
      /\ owed' \in [Settling!Books -> [PAYGW : 0..MaxCents, GST : -MaxCents..MaxCents]]
  BY <1>1 DEF SInv, Settling!SettlementSound, Settling!TypeOK
<1> QED BY <1>1, <1>2, <1>5, <1>6, <1>7, <1>8, RowsStep

(* Calls leave what is owed and remitted alone.                            *)
LEMMA PayableKept ==
  ASSUME UNCHANGED <<owed, remitted>>
  PROVE  \A b : Payable(b)' = Payable(b)
BY DEF Payable, Settling!Payable

LEMMA BeginStep ==
  ASSUME SInv, NEW c \in Preparations, Settling!Begin(c)
  PROVE  SInv'
<1>1. /\ UNCHANGED <<owed, remitted, trustAccounts, agreements, instructions, mandates, read,
                     credited, faults, faulted>>
      /\ spc[c] = "idle" /\ spc' = [spc EXCEPT ![c] = "reading"]
      /\ most' = [most EXCEPT ![c] = Payable(Book(c))]
  BY DEF Settling!Begin, Settling!Goto, Settling!tables, Payable, Book
<1>2. Settling!TypeOK'
  BY <1>1, BookType, PayableType DEF SInv, Settling!SettlementSound, Settling!TypeOK
<1>3. \A d \in Preparations \ {c} : spc'[d] = spc[d] /\ most'[d] = most[d]
  BY <1>1 DEF SInv, Settling!SettlementSound, Settling!TypeOK
<1>4. spc'[c] = "reading" /\ most'[c] = Payable(Book(c))
  BY <1>1 DEF SInv, Settling!SettlementSound, Settling!TypeOK
<1>5. read[c] = Settling!Unread
  BY <1>1 DEF SInv, NotBegun
<1>6. ReadIsOwed'
  BY <1>1, <1>3, <1>4, <1>5 DEF SInv, ReadIsOwed, Book, Settling!Unread, Settling!Nothing
<1>7. MostSoFar'
  <2> SUFFICES ASSUME NEW d \in Preparations, Reading(d)' PROVE Payable(Book(d))' <= most'[d]
    BY DEF MostSoFar
  <2>1. Payable(Book(d))' = Payable(Book(d)) /\ Payable(Book(d)) \in Int
    BY <1>1, PayableType, BookType DEF Payable, Settling!Payable, Book
  <2> QED BY <1>3, <1>4, <2>1 DEF SInv, MostSoFar, Reading
<1>8. NotBegun' /\ SumIsPayable' /\ NetIsPayable' /\ MandatesAsked'
  BY <1>1, <1>3, <1>4 DEF SInv, NotBegun, SumIsPayable, NetIsPayable, Settling!NetPayable,
     MandatesAsked, Book, Settling!Unread, Settling!Nothing
<1>9. Settling!NeverOverstated' /\ Settling!MandateAccounted'
  BY <1>1, <1>3, <1>4 DEF SInv, Settling!SettlementSound, Settling!NeverOverstated,
     Settling!NetPayable, Settling!MandateAccounted
<1> QED BY <1>1, <1>2, <1>6, <1>7, <1>8, <1>9 DEF SInv, Settling!SettlementSound

LEMMA ReadKindStep ==
  ASSUME SInv, NEW c \in Preparations, NEW k \in Settling!Kinds, Settling!ReadKind(c, k)
  PROVE  SInv'
<1> USE BasAssumption
<1>1. /\ UNCHANGED <<owed, remitted, trustAccounts, agreements, instructions, mandates, most,
                     credited, faults, faulted>>
      /\ spc[c] = "reading" /\ spc'[c] \in {"reading", "summed"}
      /\ spc' = [spc EXCEPT ![c] = spc'[c]]
      /\ read' = [read EXCEPT ![c][k] = owed[Book(c)][k]]
      /\ spc'[c] = "summed" => \A l \in Settling!Kinds \ {k} : read[c][l] # Settling!Nothing
  BY DEF Settling!ReadKind, Settling!tables, Settling!history, Book, SInv,
     Settling!SettlementSound, Settling!TypeOK
<1>2. /\ read[c] \in [PAYGW : Int, GST : Int, ledger : Int]
      /\ owed[Book(c)][k] \in Int /\ k \in {"PAYGW", "GST"}
  BY BookType, PayableType DEF Settling!Kinds
<1>3. /\ read'[c] \in [PAYGW : Int, GST : Int, ledger : Int]
      /\ read'[c][k] = owed[Book(c)][k]
      /\ \A l \in Settling!Kinds \ {k} : read'[c][l] = read[c][l]
  <2>1. read'[c] = [read[c] EXCEPT ![k] = owed[Book(c)][k]]
    BY <1>1 DEF SInv, Settling!SettlementSound, Settling!TypeOK
  <2> QED BY <1>2, <2>1 DEF Settling!Kinds
<1>4. \A d \in Preparations \ {c} : spc'[d] = spc[d] /\ read'[d] = read[d]
  BY <1>1 DEF SInv, Settling!SettlementSound, Settling!TypeOK
<1>5. Settling!TypeOK'
  <2>1. read' \in [Preparations -> [PAYGW : Int, GST : Int, ledger : Int]]
    BY <1>1, <1>3, <1>4 DEF SInv, Settling!SettlementSound, Settling!TypeOK
  <2>2. \A d \in Preparations : instructions'[d] # "none" <=> spc'[d] = "prepared"
    BY <1>1, <1>4 DEF SInv, Settling!SettlementSound, Settling!TypeOK
  <2> QED BY <1>1, <2>1, <2>2 DEF SInv, Settling!SettlementSound, Settling!TypeOK
<1>6. \A l \in Settling!Kinds : read'[c][l] # Settling!Nothing =>
        read'[c][l] <= owed[Book(c)][l] + (IF l = "GST" THEN credited[c] ELSE 0)
  <2> SUFFICES ASSUME NEW l \in Settling!Kinds, read'[c][l] # Settling!Nothing
               PROVE  read'[c][l] <= owed[Book(c)][l] + (IF l = "GST" THEN credited[c] ELSE 0)
    OBVIOUS
  <2>1. owed[Book(c)][l] \in Int /\ credited[c] \in Nat
    BY BookType, PayableType DEF Settling!Kinds
  <2>2. CASE l = k
    BY <1>3, <2>1, <2>2
  <2>3. CASE l # k
    BY <1>1, <1>3, <2>1, <2>3 DEF SInv, ReadIsOwed, Settling!Kinds
  <2> QED BY <2>2, <2>3
<1>7. ReadIsOwed'
  <2> SUFFICES ASSUME NEW d \in Preparations, spc'[d] = "reading"
               PROVE  /\ read'[d]["PAYGW"] # Settling!Nothing =>
                           read'[d]["PAYGW"] <= owed[Book(d)]["PAYGW"]
                      /\ read'[d]["GST"] # Settling!Nothing =>
                           read'[d]["GST"] <= owed[Book(d)]["GST"] + credited[d]
    BY <1>1 DEF ReadIsOwed, Book, Settling!Nothing
  <2>1. CASE d = c
    BY <1>6, <2>1, BookType, PayableType DEF Settling!Kinds
  <2>2. CASE d # c
    BY <1>4, <2>2 DEF SInv, ReadIsOwed
  <2> QED BY <2>1, <2>2
<1>8. SumIsPayable'
  <2> SUFFICES ASSUME NEW d \in Preparations, spc'[d] = "summed"
               PROVE  read'[d]["PAYGW"] + read'[d]["GST"] <=
                        most[d] + credited[d] + remitted[Book(d)]
    BY <1>1 DEF SumIsPayable, Book
  <2>1. CASE d = c
    <3>0. /\ \A l \in Settling!Kinds \ {k} : read[c][l] # Settling!Nothing
          /\ owed[Book(c)]["PAYGW"] \in Int /\ owed[Book(c)]["GST"] \in Int
          /\ credited[c] \in Nat /\ most[c] \in Int /\ remitted[Book(c)] \in Int
          /\ read'[c]["PAYGW"] \in Int /\ read'[c]["GST"] \in Int
      BY <1>1, <1>3, <2>1, BookType, PayableType
    <3>1. read'[c]["PAYGW"] <= owed[Book(c)]["PAYGW"]
      <4>1. CASE k = "PAYGW"
        BY <1>3, <3>0, <4>1
      <4>2. CASE k # "PAYGW"
        BY <1>3, <1>6, <3>0, <4>2 DEF Settling!Kinds
      <4> QED BY <4>1, <4>2
    <3>2. read'[c]["GST"] <= owed[Book(c)]["GST"] + credited[c]
      <4>1. CASE k = "GST"
        BY <1>3, <3>0, <4>1
      <4>2. CASE k # "GST"
        BY <1>3, <1>6, <3>0, <4>2 DEF Settling!Kinds
      <4> QED BY <4>1, <4>2
    <3>3. owed[Book(c)]["PAYGW"] + owed[Book(c)]["GST"] - remitted[Book(c)] <= most[c]
      BY <1>1, BookType, PayableType DEF SInv, MostSoFar, Reading
    <3> QED BY <2>1, <3>0, <3>1, <3>2, <3>3
  <2>2. CASE d # c
    BY <1>4, <2>2 DEF SInv, SumIsPayable
  <2> QED BY <2>1, <2>2
<1>9. MostSoFar'
  BY <1>1, <1>4, PayableKept DEF SInv, MostSoFar, Reading, Book
<1>10. NotBegun' /\ NetIsPayable' /\ MandatesAsked'
  <2>1. NetIsPayable'
    BY <1>1, <1>4 DEF SInv, NetIsPayable, Settling!NetPayable
  <2>2. mandates \subseteq Preparations \ {c}
    BY <1>1 DEF SInv, Settling!SettlementSound, Settling!TypeOK, MandatesAsked
  <2>3. NotBegun'
    BY <1>1, <1>4 DEF SInv, NotBegun, Settling!Unread, Settling!Nothing
  <2> QED BY <1>1, <1>4, <2>1, <2>2, <2>3 DEF SInv, MandatesAsked
<1>11. Settling!NeverOverstated' /\ Settling!MandateAccounted'
  <2>1. Settling!NeverOverstated'
    BY <1>10 DEF NetIsPayable, Settling!NeverOverstated
  <2>2. mandates \subseteq Preparations \ {c}
    BY <1>1 DEF SInv, Settling!SettlementSound, Settling!TypeOK, MandatesAsked
  <2> QED BY <1>1, <1>4, <2>1, <2>2 DEF SInv, Settling!SettlementSound,
              Settling!MandateAccounted
<1> QED BY <1>5, <1>7, <1>8, <1>9, <1>10, <1>11 DEF SInv, Settling!SettlementSound

(* The ledger is read last: all that was remitted is subtracted.           *)
LEMMA ReadLedgerStep ==
  ASSUME SInv, NEW c \in Preparations, Settling!ReadLedger(c)
  PROVE  SInv'
<1> USE BasAssumption
<1>1. /\ UNCHANGED <<owed, remitted, trustAccounts, agreements, instructions, mandates, most,
                     credited, faults, faulted>>
      /\ spc[c] = "summed" /\ spc'[c] = IF Bank THEN "mandate" ELSE "create"
      /\ spc' = [spc EXCEPT ![c] = spc'[c]]
      /\ read' = [read EXCEPT ![c].ledger = remitted[Book(c)]]
  BY DEF Settling!ReadLedger, Settling!Goto, Settling!tables, Settling!history, Book, SInv,
     Settling!SettlementSound, Settling!TypeOK
<1>2. /\ read[c] \in [PAYGW : Int, GST : Int, ledger : Int]
      /\ remitted[Book(c)] \in Int /\ most[c] \in Int /\ credited[c] \in Int
      /\ read[c]["PAYGW"] + read[c]["GST"] <= most[c] + credited[c] + remitted[Book(c)]
  BY <1>1, BookType, PayableType DEF SInv, SumIsPayable
<1>3. /\ read'[c] \in [PAYGW : Int, GST : Int, ledger : Int]
      /\ read'[c].ledger = remitted[Book(c)]
      /\ read'[c]["PAYGW"] = read[c]["PAYGW"] /\ read'[c]["GST"] = read[c]["GST"]
  <2>1. read'[c] = [read[c] EXCEPT !.ledger = remitted[Book(c)]]
    BY <1>1 DEF SInv, Settling!SettlementSound, Settling!TypeOK
  <2> QED BY <1>2, <2>1
<1>4. \A d \in Preparations \ {c} : spc'[d] = spc[d] /\ read'[d] = read[d]
  BY <1>1 DEF SInv, Settling!SettlementSound, Settling!TypeOK
<1>5. Settling!NetPayable(c)' <= most[c] + credited[c]
  BY <1>2, <1>3 DEF Settling!NetPayable
<1>6. Settling!TypeOK'
  <2>1. read' \in [Preparations -> [PAYGW : Int, GST : Int, ledger : Int]]
    BY <1>1, <1>3, <1>4 DEF SInv, Settling!SettlementSound, Settling!TypeOK
  <2>2. \A d \in Preparations : instructions'[d] # "none" <=> spc'[d] = "prepared"
    BY <1>1, <1>4 DEF SInv, Settling!SettlementSound, Settling!TypeOK
  <2>3. spc' \in [Preparations -> {"idle", "reading", "summed", "mandate", "create",
                                 "prepared", "failed"}]
    <3>1. spc'[c] \in {"mandate", "create"}
      BY <1>1
    <3> QED BY <1>1, <3>1 DEF SInv, Settling!SettlementSound, Settling!TypeOK
  <2> QED BY <1>1, <2>1, <2>2, <2>3 DEF SInv, Settling!SettlementSound, Settling!TypeOK
<1>7. NotBegun' /\ ReadIsOwed' /\ SumIsPayable'
  <2>1. spc'[c] \notin {"idle", "reading", "summed"}
    BY <1>1
  <2> QED BY <1>1, <1>4, <2>1 DEF SInv, NotBegun, ReadIsOwed, SumIsPayable, Book,
              Settling!Unread, Settling!Nothing
<1>8. MostSoFar'
  BY <1>1, <1>4, PayableKept DEF SInv, MostSoFar, Reading, Book
<1>9. NetIsPayable'
  BY <1>1, <1>4, <1>5 DEF SInv, NetIsPayable, Settling!NetPayable
<1>10. MandatesAsked' /\ mandates \subseteq Preparations \ {c}
  <2>1. mandates \subseteq Preparations \ {c}
    BY <1>1 DEF SInv, Settling!SettlementSound, Settling!TypeOK, MandatesAsked
  <2> QED BY <1>1, <1>4, <2>1 DEF SInv, MandatesAsked
<1>11. Settling!NeverOverstated' /\ Settling!MandateAccounted'
  <2>1. Settling!NeverOverstated'
    BY <1>9 DEF NetIsPayable, Settling!NeverOverstated
  <2> QED BY <1>1, <1>4, <1>10, <2>1 DEF SInv, Settling!SettlementSound,
              Settling!MandateAccounted
<1> QED BY <1>6, <1>7, <1>8, <1>9, <1>10, <1>11
        DEF SInv, Settling!SettlementSound

(* The bank makes the mandate, the rows are created, or the call ends:     *)
(* what it has read stands.                                                *)
LEMMA EndStep ==
  ASSUME SInv, NEW c \in Preparations,
         \/ Settling!CreateMandate(c) \/ Settling!Create(c)
         \/ Settling!Violate(c) \/ Settling!Lose(c)
  PROVE  SInv'
<1> USE BasAssumption
<1>1. /\ UNCHANGED <<owed, remitted, read, most, credited, credited>>
      /\ \A d \in Preparations \ {c} : spc'[d] = spc[d] /\ instructions'[d] = instructions[d]
      /\ spc'[c] \in {"create", "prepared", "failed"}
      /\ spc' \in [Preparations -> {"idle", "reading", "summed", "mandate", "create",
                                    "prepared", "failed"}]
      /\ spc'[c] \in {"create", "prepared"} => spc[c] \in {"mandate", "create"}
  BY DEF Settling!CreateMandate, Settling!Create, Settling!Violate, Settling!Lose,
      Settling!Goto,
     Settling!tables, Settling!history, SInv, Settling!SettlementSound, Settling!TypeOK
<1>2. NotBegun' /\ ReadIsOwed' /\ SumIsPayable'
  BY <1>1 DEF SInv, NotBegun, ReadIsOwed, SumIsPayable, Book, Settling!Unread,
     Settling!Nothing
<1>3. MostSoFar'
  BY <1>1, PayableKept DEF SInv, MostSoFar, Reading, Book
<1>4. NetIsPayable'
  BY <1>1 DEF SInv, NetIsPayable, Settling!NetPayable
<1>5. Settling!NeverOverstated'
  BY <1>4 DEF NetIsPayable, Settling!NeverOverstated
<1>6. Settling!TypeOK' /\ Settling!MandateAccounted' /\ MandatesAsked'
  <2> USE DEF SInv, Settling!SettlementSound, Settling!MandateAccounted, MandatesAsked, Settling!Goto
  <2>1. CASE Settling!CreateMandate(c)
    <3>1. UNCHANGED <<owed, remitted, read, most, credited, trustAccounts, agreements, instructions,
                      faults, faulted>>
      BY <2>1 DEF Settling!CreateMandate, Settling!tables, Settling!history
    <3>2. /\ spc[c] = "mandate" /\ spc' = [spc EXCEPT ![c] = "create"]
          /\ mandates' = mandates \cup {c}
      BY <2>1 DEF Settling!CreateMandate
    <3>3. Settling!TypeOK'
      BY <3>1, <3>2 DEF Settling!TypeOK
    <3> QED BY <1>1, <3>1, <3>2, <3>3 DEF Settling!TypeOK
  <2>2. CASE Settling!Create(c)
    <3>1. UNCHANGED <<owed, remitted, read, most, credited, mandates, faults, faulted>>
      BY <2>2 DEF Settling!Create, Settling!history
    <3>2. /\ spc[c] = "create" /\ spc' = [spc EXCEPT ![c] = "prepared"]
          /\ trustAccounts' = trustAccounts \cup {OrgOf[c]}
          /\ agreements' = agreements \cup {Settling!MandateRef(c)}
          /\ instructions' = [instructions EXCEPT ![c] = "PREPARED"]
      BY <2>2 DEF Settling!Create
    <3>3. Settling!TypeOK'
      BY <1>1, <3>1, <3>2 DEF Settling!TypeOK
    <3>4. c \in mandates => <<c>> \in agreements'
      BY <3>2 DEF Settling!MandateRef
    <3> QED BY <1>1, <3>1, <3>2, <3>3, <3>4 DEF Settling!TypeOK
  <2>3. CASE Settling!Violate(c)
    <3>1. /\ UNCHANGED <<owed, remitted, read, most, credited, trustAccounts, agreements, instructions,
                         mandates, faults, faulted>>
          /\ spc[c] = "create" /\ spc' = [spc EXCEPT ![c] = "failed"]
      BY <2>3 DEF Settling!Violate, Settling!tables, Settling!history
    <3>2. Settling!TypeOK'
      BY <3>1 DEF Settling!TypeOK
    <3> QED BY <1>1, <3>1, <3>2 DEF Settling!TypeOK
  <2>4. CASE Settling!Lose(c)
    <3>1. /\ UNCHANGED <<owed, remitted, read, most, credited, trustAccounts, agreements, instructions>>
          /\ spc[c] \in {"reading", "summed", "mandate", "create"}
          /\ spc' = [spc EXCEPT ![c] = "failed"]
          /\ mandates' \subseteq mandates \cup {c}
          /\ c \in mandates' => c \in mandates \/ spc[c] = "mandate"
          /\ \A d \in Preparations \ {c} : d \in mandates' => d \in mandates
          /\ faults < MaxFaults /\ faults' = faults + 1 /\ faulted' = faulted \cup {c}
      BY <2>4 DEF Settling!Lose, Settling!tables, Settling!history
    <3>2. Settling!TypeOK'
      BY <3>1 DEF Settling!TypeOK
    <3> QED BY <1>1, <3>1, <3>2 DEF Settling!TypeOK
  <2> QED BY <2>1, <2>2, <2>3, <2>4
<1> QED BY <1>2, <1>3, <1>4, <1>5, <1>6 DEF SInv, Settling!SettlementSound

LEMMA MarkStep ==
  ASSUME SInv, NEW c \in Preparations, NEW s \in {"SENT", "ACK", "FAILED"}, Settling!Mark(c, s)
  PROVE  SInv'
<1>1. /\ UNCHANGED <<owed, remitted, trustAccounts, agreements, mandates, spc, read, most,
                     credited, faults, faulted>>
      /\ instructions[c] # "none" /\ instructions' = [instructions EXCEPT ![c] = s]
  BY DEF Settling!Mark, Settling!history
<1>2. Settling!TypeOK'
  BY <1>1 DEF SInv, Settling!SettlementSound, Settling!TypeOK
<1>3. NotBegun' /\ ReadIsOwed' /\ SumIsPayable' /\ NetIsPayable' /\ MandatesAsked'
  BY <1>1 DEF SInv, NotBegun, Settling!Unread, Settling!Nothing, ReadIsOwed, SumIsPayable,
     Book, NetIsPayable, Settling!NetPayable, MandatesAsked
<1>4. MostSoFar'
  BY <1>1, PayableKept DEF SInv, MostSoFar, Reading, Book
<1>5. Settling!NeverOverstated' /\ Settling!MandateAccounted'
  BY <1>1 DEF SInv, Settling!SettlementSound, Settling!NeverOverstated,
     Settling!NetPayable, Settling!MandateAccounted
<1> QED BY <1>2, <1>3, <1>4, <1>5 DEF SInv, Settling!SettlementSound

LEMMA SStep == SInv /\ [Settling!Next]_settleVars => SInv'
<1> SUFFICES ASSUME SInv, [Settling!Next]_settleVars PROVE SInv'
  OBVIOUS
<1>1. CASE \E b \in Settling!Books :
             \/ Settling!Remit(b) \/ Settling!Credit(b)
             \/ \E k \in Settling!Kinds : Settling!Arrive(b, k)
  BY <1>1, RemitStep, CreditStep, ArriveStep
<1>2. CASE \E c \in Preparations :
             Settling!Begin(c) \/ Settling!ReadLedger(c) \/ \E k \in Settling!Kinds : Settling!ReadKind(c, k)
  BY <1>2, BeginStep, ReadLedgerStep, ReadKindStep
<1>3. CASE \E c \in Preparations :
             \/ Settling!CreateMandate(c) \/ Settling!Create(c)
             \/ Settling!Violate(c) \/ Settling!Lose(c)
  BY <1>3, EndStep
<1>4. CASE \E c \in Preparations : \E s \in {"SENT", "ACK", "FAILED"} : Settling!Mark(c, s)
  BY <1>4, MarkStep
<1>5. CASE UNCHANGED settleVars
  BY <1>5 DEF settleVars, SInv, Settling!SettlementSound, Settling!TypeOK,
     Settling!NeverOverstated, Settling!NetPayable, Settling!MandateAccounted,
     Payable, Settling!Payable, NotBegun, Settling!Unread, Settling!Nothing, ReadIsOwed,
     SumIsPayable, Reading, Book, MostSoFar, NetIsPayable, MandatesAsked
<1> QED BY <1>1, <1>2, <1>3, <1>4, <1>5 DEF Settling!Next

(* Whatever arrives, is credited and is remitted between its reads,        *)
(* whatever statement fails and whatever calls race for the unique keys,   *)
(* an instruction never asks for more than was payable at one moment while *)
(* it was prepared and what the GST fell by after it was read and before   *)
(* the PAYGW was; and a mandate made at the bank is on an agreement unless *)
(* its call is still to record it or was told an error.                    *)
THEOREM SettlementSoundAlways == Settling!Spec => []SettlementSound
<1>1. SInv /\ [Settling!Next]_Settling!vars => SInv'
  BY SStep DEF Settling!vars, settleVars, Settling!tables, Settling!history
<1>2. SInv => SettlementSound
  BY DEF SInv, SettlementSound
<1> QED BY <1>1, <1>2, SInit, PTL DEF Settling!Spec
=============================================================================
