--------------------------- MODULE ServicesProofs ---------------------------
(***************************************************************************)
(* Proofs about the modules Services instantiates: for any pages, texts,   *)
(* attempts and faults of the watcher, any jobs and limits of the slots,   *)
(* any messages, members and faults of the bus.                            *)
(***************************************************************************)
EXTENDS Services, TLAPS, FiniteSets, FiniteSetTheorems

(* Regwatcher.  Where the next event of a target will start.               *)
Base(n) ==
  IF n = Watch!Target /\ wpc = "report" THEN previous ELSE Watch!LastSnapshot(n)

(* Targets whose next event will not start where the last one ended.       *)
Stale ==
  {n \in Watch!Names : events[n] # <<>> /\ events[n][Len(events[n])].new # Base(n)}

(* The type invariant: what outlives a sweep, and the sweep itself.        *)
Stored ==
  /\ page \in [Watch!Names -> Versions]
  /\ snapshots \in [Watch!Names -> Seq(Versions \cup {"torn"})]
  /\ events \in [Watch!Names -> Seq([prev : Watch!Hashes, new : Versions])]
Sweeping ==
  /\ wpc \in {"fetch", "compare", "write", "report", "error", "next", "over"}
  /\ at \in DOMAIN Targets /\ tries \in 0..Attempts
  /\ fetched \in Watch!Hashes /\ previous \in Watch!Hashes
  /\ edits \in 0..MaxEdits /\ troubles \in 0..MaxTroubles

(* What the sweep knows of its target where it is.                         *)
Swept ==
  /\ wpc = "fetch" => tries < Attempts
  /\ wpc \in {"compare", "write", "report"} => fetched \in Versions
  /\ wpc = "write" => previous = Watch!LastSnapshot(Watch!Target)
  /\ wpc = "report" => Watch!LastSnapshot(Watch!Target) = fetched

(* A gap was a stale target first, and it was a fault that made it stale.  *)
Paid ==
  /\ IsFiniteSet(Watch!Gaps) /\ IsFiniteSet(Stale)
  /\ Cardinality(Watch!Gaps) + Cardinality(Stale) <= troubles

WInv == Stored /\ Sweeping /\ Swept /\ Paid
-----------------------------------------------------------------------------
LEMMA WatchCardinality == \A S : Watch!Cardinality(S) = Cardinality(S)
BY DEF Watch!Cardinality, Cardinality

LEMMA NamesOfTargets ==
  /\ \A i \in DOMAIN Targets : Targets[i] \in Watch!Names
  /\ 1 \in DOMAIN Targets /\ DOMAIN Targets = 1..Len(Targets) /\ Len(Targets) \in Nat \ {0}
BY ServicesAssumption DEF Watch!Names, ServicesAssumption

LEMMA SameNames == Watch!Names' = Watch!Names /\ Watch!Hashes' = Watch!Hashes
BY DEF Watch!Names, Watch!Hashes, Watch!None

LEMMA OneMore ==
  ASSUME NEW S, NEW T, NEW x, IsFiniteSet(S), T \subseteq S \cup {x}
  PROVE  /\ IsFiniteSet(T) /\ Cardinality(T) \in Nat /\ Cardinality(S) \in Nat
         /\ Cardinality(T) <= Cardinality(S) + 1
<1>1. IsFiniteSet(S \cup {x}) /\ Cardinality(S \cup {x}) <= Cardinality(S) + 1
      /\ Cardinality(S) \in Nat
  BY FS_AddElement, FS_CardinalityType
<1>2. IsFiniteSet(T) /\ Cardinality(T) <= Cardinality(S \cup {x}) /\ Cardinality(T) \in Nat
      /\ Cardinality(S \cup {x}) \in Nat
  BY <1>1, FS_Subset, FS_CardinalityType
<1> QED BY <1>1, <1>2

LEMMA WInit == Watch!Init => WInv
<1> SUFFICES ASSUME Watch!Init PROVE WInv
  OBVIOUS
<1>1. Stored /\ Sweeping
  BY ServicesAssumption, NamesOfTargets
     DEF ServicesAssumption, Watch!Init, Stored, Sweeping, Watch!Hashes, Watch!None
<1>2. Swept
  BY ServicesAssumption DEF ServicesAssumption, Watch!Init, Swept
<1>3. Watch!Gaps = {}
  BY DEF Watch!Init, Watch!Gaps, Watch!GapsOf
<1>4. Stale = {}
  BY DEF Watch!Init, Stale
<1>5. Paid
  BY <1>3, <1>4, FS_EmptySet DEF Watch!Init, Paid
<1> QED BY <1>1, <1>2, <1>5 DEF WInv

(* Steps that leave the log and the last snapshots as they are.            *)
LEMMA QuietStep ==
  ASSUME WInv, Stored' /\ Sweeping', Swept', UNCHANGED events, troubles <= troubles',
         \A n \in Watch!Names : Base(n)' = Base(n)
  PROVE  WInv'
<1>1. Watch!Gaps' = Watch!Gaps
  BY DEF Watch!Gaps, Watch!GapsOf
<1>2. Stale' = Stale
  <2> HIDE DEF Base
  <2> QED BY DEF Stale, Watch!Names
<1>3. Paid'
  BY <1>1, <1>2, FS_CardinalityType DEF WInv, Paid, Stored, Sweeping
<1> QED BY <1>3 DEF WInv

(* A fault makes at most the target of the sweep stale.                    *)
LEMMA FaultStep ==
  ASSUME WInv, Stored' /\ Sweeping', Swept', UNCHANGED events, troubles' = troubles + 1,
         \A n \in Watch!Names \ {Watch!Target} : Base(n)' = Base(n)
  PROVE  WInv'
<1>1. Watch!Gaps' = Watch!Gaps
  BY DEF Watch!Gaps, Watch!GapsOf
<1>2. Stale' \subseteq Stale \cup {Watch!Target}
  <2> HIDE DEF Base
  <2> QED BY DEF Stale, Watch!Names
<1>3. Paid'
  <2>1. IsFiniteSet(Stale') /\ Cardinality(Stale') <= Cardinality(Stale) + 1
        /\ Cardinality(Stale) \in Nat /\ Cardinality(Stale') \in Nat
    BY <1>2, OneMore DEF WInv, Paid
  <2>2. Cardinality(Watch!Gaps) \in Nat
    BY FS_CardinalityType DEF WInv, Paid
  <2> QED BY <1>1, <2>1, <2>2 DEF WInv, Paid, Stored, Sweeping
<1> QED BY <1>3 DEF WInv

LEMMA WatchTypes ==
  ASSUME WInv
  PROVE  /\ Watch!Target \in Watch!Names /\ at \in 1..Len(Targets) /\ Targets[at] \in Watch!Names
         /\ \A n \in Watch!Names : snapshots[n] \in Seq(Versions \cup {"torn"})
         /\ \A n \in Watch!Names : Watch!LastSnapshot(n) \in Watch!Hashes
<1>1. /\ Watch!Target \in Watch!Names /\ at \in 1..Len(Targets) /\ Targets[at] \in Watch!Names
      /\ \A n \in Watch!Names : snapshots[n] \in Seq(Versions \cup {"torn"})
  BY NamesOfTargets DEF WInv, Stored, Sweeping, Watch!Target
<1>2. \A n \in Watch!Names : Watch!LastSnapshot(n) \in Watch!Hashes
  BY <1>1 DEF Watch!LastSnapshot, Watch!Readable, Watch!Hashes, Watch!None
<1> QED BY <1>1, <1>2

LEMMA WatchBounds ==
  /\ "none" \notin Versions /\ "torn" \notin Versions
  /\ Attempts \in Nat \ {0} /\ MaxEdits \in Nat /\ MaxTroubles \in Nat
BY ServicesAssumption DEF ServicesAssumption

LEMMA SameBase ==
  ASSUME UNCHANGED snapshots,
         UNCHANGED <<wpc, at, previous>> \/ (wpc # "report" /\ wpc' # "report")
  PROVE  /\ \A n \in Watch!Names : Base(n)' = Base(n)
         /\ \A n \in Watch!Names : Watch!LastSnapshot(n)' = Watch!LastSnapshot(n)
BY DEF Base, Watch!LastSnapshot, Watch!Readable, Watch!Target

(* Every step of the sweep but the report, and the changes of the pages.   *)
LEMMA SweepStep ==
  ASSUME WInv,
         \/ \E n \in Watch!Names : Watch!Edit(n)
         \/ Watch!FetchOk \/ Watch!FetchFails \/ Watch!Compare \/ Watch!WriteSnapshot
         \/ Watch!ReportError \/ Watch!NextTarget \/ Watch!NextSweep
  PROVE  WInv'
<1> USE WatchBounds, SameNames DEF Watch!Goto
<1> DEFINE Same == /\ Stored' /\ Sweeping' /\ Swept' /\ UNCHANGED events /\ troubles <= troubles'
                   /\ \A n \in Watch!Names : Base(n)' = Base(n)
<1>1. ASSUME NEW t \in Watch!Names, Watch!Edit(t) PROVE Same
  <2>1. Stored' /\ UNCHANGED events
    BY <1>1 DEF WInv, Watch!Edit, Watch!sweep, Stored
  <2>2. Sweeping' /\ troubles <= troubles'
    BY <1>1 DEF WInv, Watch!Edit, Watch!sweep, Sweeping
  <2>3. Swept'
    BY <1>1, WatchTypes DEF WInv, Watch!Edit, Watch!sweep, Stored, Sweeping, Swept,
        Watch!LastSnapshot, Watch!Target
  <2>4. \A n \in Watch!Names : Base(n)' = Base(n)
    BY <1>1, SameBase DEF Watch!Edit, Watch!sweep
  <2> QED BY <2>1, <2>2, <2>3, <2>4
<1>2. ASSUME Watch!FetchOk PROVE Same
  <2>5. page[Watch!Target] \in Versions
    BY WatchTypes DEF WInv, Stored
  <2>1. Stored' /\ UNCHANGED events
    BY <1>2 DEF WInv, Watch!FetchOk, Stored
  <2>2. Sweeping' /\ troubles <= troubles'
    BY <1>2, <2>5 DEF WInv, Watch!FetchOk, Sweeping, Watch!Hashes
  <2>3. Swept'
    BY <1>2, WatchTypes DEF WInv, Watch!FetchOk, Stored, Sweeping, Swept,
        Watch!LastSnapshot, Watch!Target
  <2>4. \A n \in Watch!Names : Base(n)' = Base(n)
    BY <1>2, SameBase DEF Watch!FetchOk
  <2> QED BY <2>1, <2>2, <2>3, <2>4
<1>3. ASSUME Watch!FetchFails PROVE Same
  <2>1. Stored' /\ UNCHANGED events
    BY <1>3 DEF WInv, Watch!FetchFails, Stored
  <2>2. Sweeping' /\ troubles <= troubles'
    BY <1>3 DEF WInv, Watch!FetchFails, Sweeping, Swept
  <2>3. Swept'
    BY <1>3, WatchTypes DEF WInv, Watch!FetchFails, Stored, Sweeping, Swept,
        Watch!LastSnapshot, Watch!Target
  <2>4. \A n \in Watch!Names : Base(n)' = Base(n)
    BY <1>3, SameBase DEF Watch!FetchFails
  <2> QED BY <2>1, <2>2, <2>3, <2>4
<1>4. ASSUME Watch!Compare PROVE Same
  <2>1. Stored' /\ UNCHANGED events
    BY <1>4 DEF WInv, Watch!Compare, Stored
  <2>2. Sweeping' /\ troubles <= troubles'
    BY <1>4, WatchTypes DEF WInv, Watch!Compare, Sweeping
  <2>3. Swept'
    BY <1>4, WatchTypes DEF WInv, Watch!Compare, Stored, Sweeping, Swept,
        Watch!LastSnapshot, Watch!Target
  <2>4. \A n \in Watch!Names : Base(n)' = Base(n)
    BY <1>4, SameBase DEF Watch!Compare
  <2> QED BY <2>1, <2>2, <2>3, <2>4
<1>5. ASSUME Watch!WriteSnapshot PROVE Same
  <2>1. fetched \in Versions /\ wpc = "write" /\ wpc' = "report" /\ at' = at
        /\ snapshots' = [snapshots EXCEPT ![Watch!Target] = Append(@, fetched)]
        /\ UNCHANGED <<page, events, at, tries, fetched, previous, edits, troubles>>
    BY <1>5 DEF WInv, Watch!WriteSnapshot, Swept
  <2>8. /\ Append(snapshots[Watch!Target], fetched) \in Seq(Versions \cup {"torn"})
        /\ Watch!Target \in Watch!Names
    BY <2>1, WatchTypes
  <2>2. Stored'
    BY <2>1, <2>8 DEF WInv, Stored
  <2>7. Sweeping'
    BY <2>1 DEF WInv, Sweeping
  <2>3. Watch!LastSnapshot(Watch!Target)' = fetched
    <3>1. snapshots'[Watch!Target] = Append(snapshots[Watch!Target], fetched)
      BY <2>1, <2>8 DEF WInv, Stored
    <3>2. /\ Append(snapshots[Watch!Target], fetched) # <<>>
          /\ LET s == Append(snapshots[Watch!Target], fetched) IN s[Len(s)] = fetched
      BY <2>1, WatchTypes
    <3> QED BY <2>1, <3>1, <3>2 DEF Watch!LastSnapshot, Watch!Readable, Watch!Target
  <2>4. \A n \in Watch!Names \ {Watch!Target} :
          Watch!LastSnapshot(n)' = Watch!LastSnapshot(n)
    BY <2>1 DEF WInv, Stored, Sweeping, Watch!LastSnapshot, Watch!Readable
  <2>5. \A n \in Watch!Names : Base(n)' = Base(n)
    BY <2>1, <2>4 DEF WInv, Swept, Base, Watch!Target
  <2>6. Swept' /\ troubles <= troubles'
    BY <2>1, <2>3 DEF WInv, Swept, Watch!Target, Stored, Sweeping
  <2> QED BY <2>1, <2>2, <2>5, <2>6, <2>7
<1>6. ASSUME Watch!ReportError PROVE Same
  <2>1. Stored' /\ UNCHANGED events
    BY <1>6 DEF WInv, Watch!ReportError, Stored
  <2>2. Sweeping' /\ troubles <= troubles'
    BY <1>6 DEF WInv, Watch!ReportError, Sweeping
  <2>3. Swept'
    BY <1>6, WatchTypes DEF WInv, Watch!ReportError, Stored, Sweeping, Swept,
        Watch!LastSnapshot, Watch!Target
  <2>4. \A n \in Watch!Names : Base(n)' = Base(n)
    BY <1>6, SameBase DEF Watch!ReportError
  <2> QED BY <2>1, <2>2, <2>3, <2>4
<1>7. ASSUME Watch!NextTarget PROVE Same
  <2>1. Stored' /\ UNCHANGED events
    BY <1>7 DEF WInv, Watch!NextTarget, Watch!Clear, Stored
  <2>2. Sweeping' /\ troubles <= troubles'
    BY <1>7, NamesOfTargets DEF WInv, Watch!NextTarget, Watch!Clear, Sweeping,
        Watch!Hashes, Watch!None
  <2>3. Swept'
    BY <1>7, WatchTypes DEF WInv, Watch!NextTarget, Watch!Clear, Stored, Sweeping, Swept,
        Watch!LastSnapshot, Watch!Target
  <2>4. \A n \in Watch!Names : Base(n)' = Base(n)
    BY <1>7, SameBase DEF Watch!NextTarget, Watch!Clear
  <2> QED BY <2>1, <2>2, <2>3, <2>4
<1>8. ASSUME Watch!NextSweep PROVE Same
  <2>1. Stored' /\ UNCHANGED events
    BY <1>8 DEF WInv, Watch!NextSweep, Watch!Clear, Stored
  <2>2. Sweeping' /\ troubles <= troubles'
    BY <1>8, NamesOfTargets DEF WInv, Watch!NextSweep, Watch!Clear, Sweeping, Watch!Hashes,
        Watch!None
  <2>3. Swept'
    BY <1>8, WatchTypes DEF WInv, Watch!NextSweep, Watch!Clear, Stored, Sweeping, Swept,
        Watch!LastSnapshot, Watch!Target
  <2>4. \A n \in Watch!Names : Base(n)' = Base(n)
    BY <1>8, SameBase DEF Watch!NextSweep, Watch!Clear
  <2> QED BY <2>1, <2>2, <2>3, <2>4
<1> HIDE DEF Same
<1>9. Same
  BY <1>1, <1>2, <1>3, <1>4, <1>5, <1>6, <1>7, <1>8
<1> QED BY <1>9, QuietStep DEF Same

(* A crash or a full disk, in the middle of a write too.                   *)
LEMMA BreakStep ==
  ASSUME WInv, Watch!DiskFails \/ Watch!Crash
  PROVE  WInv'
<1> USE WatchBounds, SameNames
<1>1. /\ wpc' \in {"error", "over"} /\ troubles' = troubles + 1 /\ troubles' \in 0..MaxTroubles
      /\ snapshots' \in Watch!CutOff
      /\ UNCHANGED <<page, events, at, tries, fetched, previous, edits>>
  BY DEF Watch!DiskFails, Watch!Crash, WInv, Stored, Sweeping
<1>2. \/ snapshots' = snapshots
      \/ snapshots' = [snapshots EXCEPT ![Watch!Target] = Append(@, "torn")]
  BY <1>1 DEF Watch!CutOff
<1>3. Stored'
  <2>1. /\ Append(snapshots[Watch!Target], "torn") \in Seq(Versions \cup {"torn"})
        /\ Watch!Target \in Watch!Names
    BY WatchTypes
  <2> QED BY <1>1, <1>2, <2>1 DEF WInv, Stored
<1>6. Sweeping'
  BY <1>1 DEF WInv, Sweeping
<1>4. Swept'
  BY <1>1 DEF Swept
<1>5. \A n \in Watch!Names \ {Watch!Target} : Base(n)' = Base(n)
  BY <1>1, <1>2 DEF WInv, Stored, Sweeping, Base, Watch!LastSnapshot, Watch!Readable,
      Watch!Target
<1> QED BY <1>1, <1>3, <1>4, <1>5, <1>6, FaultStep

(* The report closes a stale target's gap in the log by recording it.      *)
LEMMA ReportStep ==
  ASSUME WInv, Watch!Report
  PROVE  WInv'
<1> USE WatchBounds, SameNames
<1>0. PICK t \in Watch!Names : t = Watch!Target
  BY WatchTypes
<1> DEFINE l == Len(events[t])
           Event == [prev |-> previous, new |-> fetched]
           Gap == <<t, l + 1>>
<1>1. /\ wpc = "report" /\ wpc' = "next" /\ fetched \in Versions
      /\ events' = [events EXCEPT ![t] = Append(@, Event)]
      /\ UNCHANGED <<page, snapshots, at, tries, fetched, previous, edits, troubles>>
  BY <1>0 DEF Watch!Report, Watch!Goto, Watch!Change, WInv, Swept
<1>2. /\ events \in [Watch!Names -> Seq([prev : Watch!Hashes, new : Versions])]
      /\ Event \in [prev : Watch!Hashes, new : Versions]
      /\ events[t] \in Seq([prev : Watch!Hashes, new : Versions]) /\ l \in Nat
  <2>1. events \in [Watch!Names -> Seq([prev : Watch!Hashes, new : Versions])]
        /\ previous \in Watch!Hashes
    BY DEF WInv, Stored, Sweeping
  <2>2. events[t] \in Seq([prev : Watch!Hashes, new : Versions])
    BY <2>1, Zenon
  <2>3. l \in Nat
    BY <2>2
  <2> QED BY <1>1, <2>1, <2>2, <2>3
<1>3. /\ Len(events'[t]) = l + 1 /\ events'[t][l + 1] = Event
      /\ \A i \in 1..l : events'[t][i] = events[t][i]
      /\ \A n \in Watch!Names \ {t} : events'[n] = events[n]
  BY <1>1, <1>2
<1>4. Stored'
  <2>1. Append(events[t], Event) \in Seq([prev : Watch!Hashes, new : Versions])
    BY <1>2
    <2> QED BY <1>1, <1>2, <2>1 DEF WInv, Stored
<1>10. Sweeping' /\ Swept'
  BY <1>1 DEF WInv, Sweeping, Swept
<1>5. \A n \in Watch!Names \ {t} : Watch!GapsOf(n)' = Watch!GapsOf(n)
  BY <1>3 DEF Watch!GapsOf
<1>6. Watch!GapsOf(t)' = Watch!GapsOf(t) \cup (IF t \in Stale THEN {l + 1} ELSE {})
  <2> SUFFICES ASSUME NEW i
               PROVE  i \in Watch!GapsOf(t)' <=>
                        i \in Watch!GapsOf(t) \/ (t \in Stale /\ i = l + 1)
    OBVIOUS
  <2>1. /\ Watch!GapsOf(t)' =
              {j \in 2..(l + 1) : events'[t][j].prev # events'[t][j - 1].new}
        /\ Watch!GapsOf(t) = {j \in 2..l : events[t][j].prev # events[t][j - 1].new}
    BY <1>1, <1>3 DEF Watch!GapsOf
  <2>2. t \in Stale <=> l # 0 /\ events[t][l].new # previous
    BY <1>0, <1>1, <1>2 DEF Stale, Base
  <2>3. CASE i \in 2..l
    <3>1. i \in 1..l /\ i - 1 \in 1..l /\ i \in 2..(l + 1) /\ i # l + 1
      BY <1>2, <2>3
    <3> HIDE DEF l
    <3> QED BY <1>3, <2>1, <2>3, <3>1
  <2>4. CASE i = l + 1
    <3>1. i \notin 2..l /\ (i \in 2..(l + 1) <=> l # 0) /\ i - 1 = l /\ (l # 0 => l \in 1..l)
      BY <1>2, <2>4
    <3> HIDE DEF l
    <3>2. l # 0 => events'[t][i].prev = previous /\ events'[t][i - 1].new = events[t][l].new
      BY <1>3, <2>4, <3>1
    <3> QED BY <2>1, <2>2, <2>4, <3>1, <3>2
  <2>5. CASE i \notin 2..l /\ i # l + 1
    BY <1>2, <2>1, <2>5
  <2> QED BY <2>3, <2>4, <2>5
<1>7. Watch!Gaps' = IF t \in Stale THEN Watch!Gaps \cup {Gap} ELSE Watch!Gaps
  <2>1. Watch!Gaps' = UNION {{<<n, i>> : i \in Watch!GapsOf(n)'} : n \in Watch!Names}
    BY DEF Watch!Gaps, Watch!Names
  <2> HIDE DEF l
  <2>2. Gap = <<t, l + 1>>
    OBVIOUS
  <2> QED BY <1>0, <1>5, <1>6, <2>1, <2>2 DEF Watch!Gaps
<1>8. Stale' = Stale \ {t}
  <2>1. Stale' = {n \in Watch!Names :
                   events'[n] # <<>> /\ events'[n][Len(events'[n])].new # Base(n)'}
    BY DEF Stale, Watch!Names
  <2>2. \A n \in Watch!Names \ {t} : Base(n)' = Base(n)
    BY <1>0, <1>1 DEF Base, Watch!LastSnapshot, Watch!Readable, Watch!Target
  <2>3. Base(t)' = fetched /\ events'[t][Len(events'[t])].new = fetched
    BY <1>0, <1>1, <1>2, <1>3 DEF WInv, Swept, Base, Watch!LastSnapshot, Watch!Readable,
        Watch!Target
  <2> HIDE DEF Base
  <2>4. ASSUME NEW n \in Watch!Names PROVE n \in Stale' <=> n \in Stale \ {t}
    <3>1. CASE n = t
      BY <2>1, <2>3, <3>1
    <3>2. CASE n # t
      BY <1>3, <2>1, <2>2, <3>2 DEF Stale
    <3> QED BY <3>1, <3>2
  <2> QED BY <2>1, <2>4 DEF Stale
<1>9. Paid'
  <2>1. /\ IsFiniteSet(Watch!Gaps) /\ IsFiniteSet(Stale) /\ troubles \in Nat
        /\ Cardinality(Watch!Gaps) \in Nat /\ Cardinality(Stale) \in Nat
        /\ Cardinality(Watch!Gaps) + Cardinality(Stale) <= troubles
    BY FS_CardinalityType DEF WInv, Paid, Stored, Sweeping
  <2>2. IsFiniteSet(Stale') /\ Cardinality(Stale') \in Nat
        /\ Cardinality(Stale') = IF t \in Stale THEN Cardinality(Stale) - 1 ELSE Cardinality(Stale)
    BY <1>8, <2>1, FS_RemoveElement, FS_CardinalityType
  <2>3. IsFiniteSet(Watch!Gaps \cup {Gap}) /\ Cardinality(Watch!Gaps \cup {Gap}) \in Nat
        /\ Cardinality(Watch!Gaps \cup {Gap}) <= Cardinality(Watch!Gaps) + 1
    BY <2>1, OneMore
  <2> HIDE DEF Gap
  <2> QED BY <1>1, <1>7, <2>1, <2>2, <2>3 DEF Paid
<1> QED BY <1>4, <1>9, <1>10 DEF WInv

LEMMA WNext == WInv /\ [Watch!Next]_(Watch!vars) => WInv'
<1> SUFFICES ASSUME WInv, [Watch!Next]_(Watch!vars) PROVE WInv'
  OBVIOUS
<1>1. CASE Watch!Next
  BY <1>1, SweepStep, ReportStep, BreakStep DEF Watch!Next, Watch!Sweep
<1>2. CASE UNCHANGED Watch!vars
  <2>1. UNCHANGED <<page, snapshots, events, wpc, at, tries, fetched, previous, edits, troubles>>
    BY <1>2 DEF Watch!vars, Watch!sweep
  <2>2. Stored'
    BY <2>1, SameNames DEF WInv, Stored
  <2>4. Sweeping' /\ troubles <= troubles'
    BY <2>1, SameNames, WatchBounds DEF WInv, Sweeping
  <2>3. Swept' /\ \A n \in Watch!Names : Base(n)' = Base(n)
    BY <2>1, SameBase DEF WInv, Swept, Watch!LastSnapshot, Watch!Readable, Watch!Target
  <2> QED BY <2>1, <2>2, <2>3, <2>4, QuietStep
<1> QED BY <1>1, <1>2

(* However often pages change, requests fail, the disk is full or the      *)
(* process dies, a gap in the log of changes is paid for by a fault        *)
(* (run-once.ts).                                                          *)
THEOREM LogSoundAlways == Watch!Spec => []LogSound
<1>1. WInv => LogSound
  <2> SUFFICES ASSUME WInv PROVE LogSound
    OBVIOUS
  <2>1. Cardinality(Watch!Gaps) \in Nat /\ Cardinality(Stale) \in Nat
    BY FS_CardinalityType DEF WInv, Paid
  <2>2. Watch!TypeOK
    BY DEF WInv, Watch!TypeOK, Stored, Sweeping
  <2>3. Cardinality(Watch!Gaps) <= troubles
    BY <2>1 DEF WInv, Paid, Sweeping
  <2> QED BY <2>2, <2>3, WatchCardinality DEF LogSound, Watch!LogSound, Watch!GapsExplained
<1> QED BY <1>1, WInit, WNext, PTL DEF Watch!Spec
-----------------------------------------------------------------------------
(* AdminJobs.  The type invariant: the jobs, and the slots.                *)
Staged ==
  /\ status \in [Jobs -> {"none", "queued", "running", "succeeded", "failed"}]
  /\ jpc \in [Jobs -> {"idle", "mkdir", "queued", "running", "closed", "result"}
                      \cup Working!Over]
  /\ child \in [Jobs -> {"none", "alive", "ok", "error", "killed"}]
  /\ killedByTimeout \subseteq Jobs
Sized ==
  /\ runs \in Seq(Jobs) /\ queue \in Seq(Jobs)
  /\ limit \in Limits /\ active \in 0..limit /\ crashes \in 0..MaxCrashes

(* The slots counted are those held, and the queue waits only for a slot.  *)
Counted ==
  /\ IsFiniteSet(Working!Holding) /\ active = Cardinality(Working!Holding)
  /\ queue # <<>> => active = limit

(* The jobs queued are the end of the list of runs, in its order.          *)
First == Len(runs) - Len(queue)
Lined ==
  /\ First >= 0
  /\ \A i \in 1..Len(queue) : queue[i] = runs[First + i]
  /\ \A i \in 1..Len(runs) : jpc[runs[i]] \notin {"idle", "mkdir"}
  /\ \A i \in 1..Len(runs) : jpc[runs[i]] = "queued" <=> i > First
  /\ \A i, k \in 1..Len(runs) : runs[i] = runs[k] => i = k
  /\ \A j \in Working!Queued : \E i \in 1..Len(runs) : runs[i] = j

(* Success is told after the end of a job that was not killed.             *)
Told ==
  \A j \in Jobs : status[j] = "succeeded" =>
    jpc[j] \in {"result", "done"} /\ j \notin killedByTimeout

JInv == Staged /\ Sized /\ Counted /\ Lined /\ Told

LEMMA JobsCardinality == \A S : Working!Cardinality(S) = Cardinality(S)
BY DEF Working!Cardinality, Cardinality

LEMMA LimitsPositive == \A l \in Limits : l \in Nat \ {0}
BY ServicesAssumption DEF ServicesAssumption

LEMMA JInit == Working!Init => JInv
<1> SUFFICES ASSUME Working!Init PROVE JInv
  OBVIOUS
<1> USE DEF Working!Init
<1>1. Staged
  BY DEF Staged
<1>2. Sized
  BY LimitsPositive, ServicesAssumption DEF Sized, ServicesAssumption
<1>3. Working!Holding = {} /\ Working!Queued = {}
  BY DEF Working!Holding, Working!Queued
<1>4. Counted
  BY <1>3, FS_EmptySet DEF Counted
<1>5. Lined /\ Told
  BY <1>3 DEF Lined, First, Told
<1> QED BY <1>1, <1>2, <1>4, <1>5 DEF JInv

(* What a pump does that takes no task, or one.                            *)
LEMMA PumpTakesNone ==
  ASSUME NEW a \in Nat, NEW q \in Seq(Jobs), NEW stages, NEW statuses, NEW S, NEW T,
         stages \in [Jobs -> S], statuses \in [Jobs -> T], Staged,
         Working!Taken(a, q) = 0, Working!Pump(a, q, stages, statuses)
  PROVE  active' = a /\ queue' = q /\ jpc' = stages /\ status' = statuses /\ child' = child
<1>1. Working!Shifted(q, 0) = {}
  BY DEF Working!Shifted
<1>2. Working!Rest(q, 0) = q
  BY DEF Working!Rest
<1> QED BY <1>1, <1>2 DEF Working!Pump, Staged

LEMMA PumpTakesOne ==
  ASSUME NEW a \in Nat, NEW q \in Seq(Jobs), NEW stages, NEW statuses, NEW S, NEW T,
         stages \in [Jobs -> S], statuses \in [Jobs -> T], Staged,
         Working!Taken(a, q) = 1, q # <<>>, Working!Pump(a, q, stages, statuses)
  PROVE  /\ active' = a + 1
         /\ queue' = SubSeq(q, 2, Len(q))
         /\ jpc' = [stages EXCEPT ![q[1]] = "running"]
         /\ status' = [statuses EXCEPT ![q[1]] = "running"]
         /\ child' = [child EXCEPT ![q[1]] = "alive"]
<1>1. Working!Shifted(q, 1) = {q[1]}
  BY DEF Working!Shifted
<1>2. Working!Rest(q, 1) = SubSeq(q, 2, Len(q))
  BY DEF Working!Rest
<1> QED BY <1>1, <1>2 DEF Working!Pump, Staged

LEMMA JobTypes ==
  ASSUME JInv
  PROVE  /\ limit \in Nat \ {0} /\ active \in Nat /\ active <= limit
         /\ Len(runs) \in Nat /\ Len(queue) \in Nat /\ First \in Nat
         /\ \A i \in 1..Len(runs) : runs[i] \in Jobs
         /\ \A i \in 1..Len(queue) : queue[i] \in Jobs
<1>1. limit \in Nat \ {0} /\ active \in 0..limit /\ runs \in Seq(Jobs) /\ queue \in Seq(Jobs)
  BY LimitsPositive DEF JInv, Sized
<1>2. Len(runs) \in Nat /\ Len(queue) \in Nat
  BY <1>1
<1>3. First \in Nat
  BY <1>2 DEF JInv, Lined, First
<1>4. /\ \A i \in 1..Len(runs) : runs[i] \in Jobs
      /\ \A i \in 1..Len(queue) : queue[i] \in Jobs
  BY <1>1
<1> QED BY <1>1, <1>2, <1>3, <1>4

(* Steps of one job that move no task and hold no other slot.              *)
LEMMA JobStep ==
  ASSUME JInv, NEW j \in Jobs,
         \/ Working!Enqueue(j) \/ Working!Exit(j) \/ Working!Timeout(j)
         \/ Working!Close(j) \/ Working!WriteLog(j)
  PROVE  JInv'
<1> USE DEF Working!Goto
<1>1. /\ UNCHANGED <<limit, runs, queue, active, crashes>>
      /\ \A k \in Jobs \ {j} : jpc'[k] = jpc[k] /\ status'[k] = status[k]
      /\ \A k \in Jobs \ {j} : k \in killedByTimeout' <=> k \in killedByTimeout
      /\ \/ jpc'[j] = jpc[j]
         \/ jpc[j] \in {"idle", "mkdir"} /\ jpc'[j] \in {"mkdir", "rejected"}
         \/ jpc[j] = "running" /\ jpc'[j] = "closed"
         \/ jpc[j] = "closed" /\ jpc'[j] = "result"
  BY DEF JInv, Staged, Working!Enqueue, Working!Exit, Working!Timeout, Working!Close,
      Working!WriteLog
<1>2. Staged'
  BY DEF JInv, Staged, Working!Over, Working!Outcome,
     Working!Enqueue, Working!Exit, Working!Timeout, Working!Close, Working!WriteLog
<1>3. Sized'
  BY <1>1 DEF JInv, Sized
<1>4. Working!Holding' = Working!Holding /\ Working!Queued' = Working!Queued
  BY <1>1 DEF Working!Holding, Working!Queued
<1>5. Counted'
  BY <1>1, <1>4 DEF JInv, Counted
<1>6. Lined'
  <2>1. First' = First
    BY <1>1 DEF First
  <2>2. \A i \in 1..Len(runs) : jpc[runs[i]] \notin {"idle", "mkdir"}
    BY DEF JInv, Lined
  <2>3. \A i \in 1..Len(runs) : jpc'[runs[i]] \notin {"idle", "mkdir"}
    BY <1>1, <2>2, JobTypes
  <2>4. \A i \in 1..Len(runs) : jpc'[runs[i]] = "queued" <=> jpc[runs[i]] = "queued"
    BY <1>1, JobTypes
  <2> QED BY <1>1, <1>4, <2>1, <2>3, <2>4 DEF JInv, Lined
<1>7. Told'
  <2>1. \A k \in Jobs \ {j} : status'[k] = "succeeded" =>
          jpc'[k] \in {"result", "done"} /\ k \notin killedByTimeout'
    BY <1>1 DEF JInv, Told
  <2>2. status'[j] = "succeeded" => jpc'[j] \in {"result", "done"} /\ j \notin killedByTimeout'
    BY DEF JInv, Told, Staged, Working!Outcome,
       Working!Enqueue, Working!Exit, Working!Timeout, Working!Close, Working!WriteLog
  <2> QED BY <2>1, <2>2 DEF Told
<1> QED BY <1>2, <1>3, <1>5, <1>6, <1>7 DEF JInv

LEMMA JobsCrash ==
  ASSUME JInv, Working!Crash
  PROVE  JInv'
<1> USE DEF Working!Crash
<1>1. Staged'
  BY DEF JInv, Staged, Working!Over
<1>2. Sized'
  BY JobTypes, ServicesAssumption DEF JInv, Sized, ServicesAssumption
<1>3. Working!Holding' = {} /\ Working!Queued' = {}
  BY DEF Working!Holding, Working!Queued, Working!Over
<1>4. Counted'
  BY <1>3, FS_EmptySet DEF Counted
<1>5. Lined'
  BY <1>3 DEF Lined, First
<1>6. Told'
  BY DEF Told
<1> QED BY <1>1, <1>2, <1>4, <1>5, <1>6 DEF JInv

(* What a list of jobs is after one was added. *)
LEMMA AppendKnown ==
  ASSUME NEW q \in Seq(Jobs), NEW j \in Jobs
  PROVE  /\ Append(q, j) \in Seq(Jobs) /\ Len(Append(q, j)) = Len(q) + 1
         /\ \A i \in 1..Len(q) : Append(q, j)[i] = q[i]
         /\ Append(q, j)[Len(q) + 1] = j /\ Append(q, j) # <<>>
OBVIOUS

(* A queued job takes the free slot at once, or waits behind the others.   *)
LEMMA PushStep ==
  ASSUME JInv, NEW j \in Jobs, Working!Push(j)
  PROVE  JInv'
<1> DEFINE Behind == Append(queue, j)
           Stages == [jpc EXCEPT ![j] = "queued"]
           Statuses == [status EXCEPT ![j] = "queued"]
           Places == {"idle", "mkdir", "queued", "running", "closed", "result"} \cup Working!Over
           Kinds == {"none", "queued", "running", "succeeded", "failed"}
<1>1. /\ jpc[j] = "mkdir" /\ runs' = Append(runs, j)
      /\ Working!Pump(active, Behind, Stages, Statuses)
      /\ UNCHANGED <<limit, killedByTimeout, crashes>>
  BY DEF Working!Push
<1>2. /\ queue \in Seq(Jobs) /\ Behind \in Seq(Jobs) /\ Len(Behind) = Len(queue) + 1
      /\ \A i \in 1..Len(queue) : Behind[i] = queue[i]
      /\ Behind[Len(queue) + 1] = j /\ Behind # <<>>
      /\ runs \in Seq(Jobs) /\ runs' \in Seq(Jobs) /\ Len(runs') = Len(runs) + 1
      /\ \A i \in 1..Len(runs) : runs'[i] = runs[i]
      /\ runs'[Len(runs) + 1] = j
  <2>1. queue \in Seq(Jobs) /\ runs \in Seq(Jobs) /\ runs' = Append(runs, j)
    BY <1>1 DEF JInv, Sized
  <2>2. /\ Behind \in Seq(Jobs) /\ Len(Behind) = Len(queue) + 1
        /\ \A i \in 1..Len(queue) : Behind[i] = queue[i]
        /\ Behind[Len(queue) + 1] = j /\ Behind # <<>>
    BY <2>1, AppendKnown
  <2>3. /\ runs' \in Seq(Jobs) /\ Len(runs') = Len(runs) + 1
        /\ \A i \in 1..Len(runs) : runs'[i] = runs[i]
        /\ runs'[Len(runs) + 1] = j
    BY <2>1, AppendKnown
  <2> QED BY <2>1, <2>2, <2>3
<1>3. Stages \in [Jobs -> Places] /\ Statuses \in [Jobs -> Kinds] /\ Staged
  BY DEF JInv, Staged
<1>4. \A i \in 1..Len(runs) : runs[i] # j
  BY <1>1 DEF JInv, Lined
<1>5. CASE active = limit
  <2>1. Working!Taken(active, Behind) = 0
    BY <1>2, <1>5, JobTypes DEF Working!Taken
  <2>2. /\ active' = active /\ queue' = Behind /\ jpc' = Stages /\ status' = Statuses
        /\ child' = child
    <3> HIDE DEF Behind, Stages, Statuses, Places, Kinds
    <3> QED BY <1>1, <1>2, <1>3, <2>1, PumpTakesNone, JobTypes
  <2>3. Staged'
    BY <1>1, <2>2 DEF JInv, Staged
  <2>4. Sized'
    BY <1>1, <1>2, <2>2 DEF JInv, Sized
  <2>5. Counted'
    <3>1. Working!Holding' = Working!Holding
      BY <1>1, <2>2 DEF JInv, Staged, Working!Holding
    <3> QED BY <1>1, <1>5, <2>2, <3>1 DEF JInv, Counted
  <2>6. Lined'
    <3>1. First' = First /\ First \in Nat /\ Len(runs) \in Nat /\ Len(queue) \in Nat
          /\ First + Len(queue) = Len(runs)
      BY <1>2, <2>2, JobTypes DEF First
    <3>2. \A i \in 1..Len(queue') : queue'[i] = runs'[First + i]
      <4> SUFFICES ASSUME NEW i \in 1..Len(queue') PROVE queue'[i] = runs'[First + i]
        OBVIOUS
      <4>1. CASE i \in 1..Len(queue)
        <5>1. queue[i] = runs[First + i] /\ First + i \in 1..Len(runs)
          BY <3>1, <4>1 DEF JInv, Lined
        <5> QED BY <1>2, <2>2, <4>1, <5>1
      <4>2. CASE i \notin 1..Len(queue)
        <5> HIDE DEF Behind
        <5>2. Len(queue') = Len(queue) + 1
          BY <1>2, <2>2
        <5>1. i = Len(queue) + 1 /\ First + i = Len(runs) + 1
          BY <3>1, <4>2, <5>2
        <5> QED BY <1>2, <2>2, <5>1
      <4> QED BY <4>1, <4>2
    <3>3. \A i \in 1..Len(runs) : jpc'[runs'[i]] = jpc[runs[i]]
      BY <1>2, <1>3, <1>4, <2>2, JobTypes DEF Staged
    <3>4. jpc'[runs'[Len(runs) + 1]] = "queued" /\ Len(runs) + 1 > First
      BY <1>2, <1>3, <2>2, <3>1 DEF Staged
    <3>5. \A i \in 1..Len(runs') : i \in 1..Len(runs) \/ i = Len(runs) + 1
      BY <1>2, <3>1
    <3>6. \A i \in 1..Len(runs') : jpc'[runs'[i]] \notin {"idle", "mkdir"}
      BY <3>3, <3>4, <3>5 DEF JInv, Lined
    <3>7. \A i \in 1..Len(runs') : jpc'[runs'[i]] = "queued" <=> i > First
      BY <3>3, <3>4, <3>5 DEF JInv, Lined
    <3>8. \A i, k \in 1..Len(runs') : runs'[i] = runs'[k] => i = k
      BY <1>2, <1>4, <3>5 DEF JInv, Lined
    <3>9. \A k \in Working!Queued' : \E i \in 1..Len(runs') : runs'[i] = k
      <4> SUFFICES ASSUME NEW k \in Jobs, jpc'[k] = "queued"
                   PROVE  \E i \in 1..Len(runs') : runs'[i] = k
        BY DEF Working!Queued
      <4>1. CASE k = j
        BY <1>2, <3>1, <4>1
      <4>2. CASE k # j
        <5>1. k \in Working!Queued
          BY <1>3, <2>2, <4>2 DEF Staged, Working!Queued
        <5>2. PICK i \in 1..Len(runs) : runs[i] = k
          BY <5>1 DEF JInv, Lined
        <5> QED BY <1>2, <3>1, <5>2
      <4> QED BY <4>1, <4>2
    <3> QED BY <3>1, <3>2, <3>6, <3>7, <3>8, <3>9 DEF Lined
  <2>7. Told'
    BY <1>1, <1>3, <2>2 DEF JInv, Told, Staged
  <2> QED BY <2>3, <2>4, <2>5, <2>6, <2>7 DEF JInv
<1>6. CASE active # limit
  <2>1. queue = <<>> /\ active < limit /\ Len(queue) = 0
    BY <1>6, JobTypes DEF JInv, Counted
  <2>2. Working!Taken(active, Behind) = 1 /\ Behind[1] = j /\ Len(Behind) = 1
    BY <1>2, <2>1, JobTypes DEF Working!Taken
  <2>3. /\ active' = active + 1 /\ queue' = SubSeq(Behind, 2, Len(Behind))
        /\ jpc' = [Stages EXCEPT ![j] = "running"]
        /\ status' = [Statuses EXCEPT ![j] = "running"]
        /\ child' = [child EXCEPT ![j] = "alive"]
    <3> HIDE DEF Behind, Stages, Statuses, Places, Kinds
    <3>1. active \in Nat /\ Behind \in Seq(Jobs) /\ Behind # <<>>
      BY <1>2, JobTypes
    <3>2. /\ active' = active + 1 /\ queue' = SubSeq(Behind, 2, Len(Behind))
          /\ jpc' = [Stages EXCEPT ![Behind[1]] = "running"]
          /\ status' = [Statuses EXCEPT ![Behind[1]] = "running"]
          /\ child' = [child EXCEPT ![Behind[1]] = "alive"]
      BY <1>1, <1>3, <2>2, <3>1, PumpTakesOne
    <3> QED BY <2>2, <3>2
  <2>4. queue' = <<>> /\ Len(queue') = 0 /\ queue' \in Seq(Jobs)
    BY <1>2, <2>2, <2>3
  <2>5. Staged'
    BY <1>1, <2>3 DEF JInv, Staged
  <2>6. Sized'
    BY <1>1, <1>2, <2>1, <2>3, <2>4, JobTypes DEF JInv, Sized
  <2>7. Counted'
    <3>1. Working!Holding' = Working!Holding \cup {j} /\ j \notin Working!Holding
      BY <1>1, <1>3, <2>3 DEF Staged, Working!Holding
    <3>2. IsFiniteSet(Working!Holding) /\ active = Cardinality(Working!Holding)
      BY DEF JInv, Counted
    <3>3. IsFiniteSet(Working!Holding \cup {j})
          /\ Cardinality(Working!Holding \cup {j}) = active + 1
      BY <3>1, <3>2, FS_AddElement
    <3> QED BY <2>3, <2>4, <3>1, <3>3 DEF Counted
  <2>8. Lined'
    <3>1. First = Len(runs) /\ First' = Len(runs) + 1 /\ Len(runs) \in Nat
      BY <1>2, <2>1, <2>4, JobTypes DEF First
    <3>3. \A i \in 1..Len(runs) : jpc'[runs'[i]] = jpc[runs[i]]
      BY <1>2, <1>3, <1>4, <2>3, JobTypes DEF Staged
    <3>4. jpc'[runs'[Len(runs) + 1]] = "running"
      BY <1>2, <1>3, <2>3 DEF Staged
    <3>5. \A i \in 1..Len(runs') : i \in 1..Len(runs) \/ i = Len(runs) + 1
      BY <1>2, <3>1
    <3>6. \A i \in 1..Len(runs') : jpc'[runs'[i]] \notin {"idle", "mkdir"}
      BY <3>3, <3>4, <3>5 DEF JInv, Lined
    <3>7. \A i \in 1..Len(runs') : jpc'[runs'[i]] # "queued" /\ ~(i > First')
      BY <1>2, <3>1, <3>3, <3>4, <3>5 DEF JInv, Lined
    <3>8. \A i, k \in 1..Len(runs') : runs'[i] = runs'[k] => i = k
      BY <1>2, <1>4, <3>5 DEF JInv, Lined
    <3>9. Working!Queued' = {}
      <4> SUFFICES ASSUME NEW k \in Jobs, jpc'[k] = "queued" PROVE FALSE
        BY DEF Working!Queued
      <4>1. k \in Working!Queued
        BY <1>3, <2>3 DEF Staged, Working!Queued
      <4>2. PICK i \in 1..Len(runs) : runs[i] = k
        BY <4>1 DEF JInv, Lined
      <4> QED BY <3>1, <4>1, <4>2 DEF JInv, Lined, Working!Queued
    <3> QED BY <2>4, <3>1, <3>6, <3>7, <3>8, <3>9 DEF Lined
  <2>9. Told'
    BY <1>1, <1>3, <2>3 DEF JInv, Told, Staged
  <2> QED BY <2>5, <2>6, <2>7, <2>8, <2>9 DEF JInv
<1> QED BY <1>5, <1>6

(* The slot of a job that ends goes to the job that has waited longest.    *)
LEMMA ReleaseStep ==
  ASSUME JInv, NEW j \in Jobs, Working!Finish(j) \/ Working!LogFails(j)
  PROVE  JInv'
<1>1. PICK to \in {"done", "unlogged"} :
        /\ jpc[j] \in {"closed", "result"} /\ (to = "unlogged" => jpc[j] = "closed")
        /\ Working!Pump(active - 1, queue, [jpc EXCEPT ![j] = to], status)
        /\ UNCHANGED <<limit, runs, killedByTimeout, crashes>>
  BY DEF Working!Finish, Working!LogFails, Working!Release
<1> DEFINE Stages == [jpc EXCEPT ![j] = to]
           Places == {"idle", "mkdir", "queued", "running", "closed", "result"} \cup Working!Over
           Kinds == {"none", "queued", "running", "succeeded", "failed"}
<1>2. Stages \in [Jobs -> Places] /\ status \in [Jobs -> Kinds] /\ Staged
  BY DEF JInv, Staged, Working!Over
<1>3. /\ IsFiniteSet(Working!Holding) /\ active = Cardinality(Working!Holding)
      /\ j \in Working!Holding
      /\ IsFiniteSet(Working!Holding \ {j})
      /\ Cardinality(Working!Holding \ {j}) = active - 1 /\ active - 1 \in Nat
  <2>1. /\ IsFiniteSet(Working!Holding) /\ active = Cardinality(Working!Holding)
        /\ j \in Working!Holding
    BY <1>1 DEF JInv, Counted, Working!Holding
  <2>2. IsFiniteSet(Working!Holding \ {j}) /\ Cardinality(Working!Holding \ {j}) = active - 1
    BY <2>1, FS_RemoveElement
  <2> QED BY <2>1, <2>2, FS_CardinalityType
<1>4. queue \in Seq(Jobs) /\ runs \in Seq(Jobs)
  BY DEF JInv, Sized
<1>5. CASE queue = <<>>
  <2>1. Len(queue) = 0 /\ Working!Taken(active - 1, queue) = 0
    BY <1>5, JobTypes DEF Working!Taken
  <2>2. /\ active' = active - 1 /\ queue' = queue /\ jpc' = Stages /\ status' = status
        /\ child' = child
    <3> HIDE DEF Stages, Places, Kinds
    <3>1. Working!Pump(active - 1, queue, Stages, status)
      BY <1>1 DEF Stages
    <3> QED BY <1>2, <1>3, <1>4, <2>1, <3>1, PumpTakesNone
  <2>3. Staged'
    BY <1>1, <1>2, <2>2 DEF Staged
  <2>4. Sized'
    BY <1>1, <1>3, <2>2, JobTypes DEF JInv, Sized
  <2>5. Counted'
    <3>1. Working!Holding' = Working!Holding \ {j}
      BY <1>1, <1>2, <2>2 DEF Staged, Working!Holding
    <3> QED BY <1>3, <1>5, <2>2, <3>1 DEF Counted
  <2>6. Lined'
    <3>1. First' = First
      BY <1>1, <2>2 DEF First
    <3>2. \A i \in 1..Len(runs) : jpc'[runs[i]] = jpc[runs[i]]
            \/ (jpc[runs[i]] \in {"closed", "result"} /\ jpc'[runs[i]] = to)
      <4>1. \A k \in Jobs : jpc'[k] = jpc[k]
              \/ (jpc[k] \in {"closed", "result"} /\ jpc'[k] = to)
        BY <1>1, <1>2, <2>2 DEF Staged
      <4> QED BY <4>1, JobTypes
    <3>3. Working!Queued' = Working!Queued
      BY <1>1, <1>2, <2>2 DEF Staged, Working!Queued
    <3>4. \A i \in 1..Len(runs) :
            jpc'[runs[i]] \notin {"idle", "mkdir"} /\ (jpc'[runs[i]] = "queued" <=> i > First)
      BY <3>2 DEF JInv, Lined
    <3> QED BY <1>1, <2>2, <3>1, <3>3, <3>4 DEF JInv, Lined
  <2>7. Told'
    BY <1>1, <1>2, <2>2 DEF JInv, Told, Staged
  <2> QED BY <2>3, <2>4, <2>5, <2>6, <2>7 DEF JInv
<1>6. CASE queue # <<>>
  <2> DEFINE h == queue[1]
  <2>1. active = limit /\ Len(queue) \in Nat \ {0} /\ h \in Jobs
    BY <1>4, <1>6 DEF JInv, Counted
  <2>2. Working!Taken(active - 1, queue) = 1
    BY <2>1, JobTypes DEF Working!Taken
  <2>3. /\ active' = active - 1 + 1 /\ queue' = SubSeq(queue, 2, Len(queue))
        /\ jpc' = [Stages EXCEPT ![h] = "running"]
        /\ status' = [status EXCEPT ![h] = "running"]
        /\ child' = [child EXCEPT ![h] = "alive"]
    <3> HIDE DEF Stages, Places, Kinds
    <3>1. Working!Pump(active - 1, queue, Stages, status)
      BY <1>1 DEF Stages
    <3>2. /\ active' = active - 1 + 1 /\ queue' = SubSeq(queue, 2, Len(queue))
          /\ jpc' = [Stages EXCEPT ![queue[1]] = "running"]
          /\ status' = [status EXCEPT ![queue[1]] = "running"]
          /\ child' = [child EXCEPT ![queue[1]] = "alive"]
      <4> DEFINE free == active - 1
      <4>1. Working!Pump(free, queue, Stages, status) /\ Working!Taken(free, queue) = 1
            /\ free \in Nat
        BY <1>3, <2>2, <3>1
      <4> HIDE DEF free
      <4>2. /\ active' = free + 1 /\ queue' = SubSeq(queue, 2, Len(queue))
            /\ jpc' = [Stages EXCEPT ![queue[1]] = "running"]
            /\ status' = [status EXCEPT ![queue[1]] = "running"]
            /\ child' = [child EXCEPT ![queue[1]] = "alive"]
        BY <1>2, <1>4, <1>6, <4>1, PumpTakesOne
      <4> QED BY <4>2 DEF free
    <3> QED BY <3>2
  <2>4. /\ active' = active
        /\ queue' \in Seq(Jobs) /\ Len(queue') = Len(queue) - 1
        /\ \A i \in 1..(Len(queue) - 1) : queue'[i] = queue[i + 1]
    <3>1. active' = active
      BY <2>3, JobTypes
    <3>2. queue' \in Seq(Jobs) /\ Len(queue') = Len(queue) - 1
      <4>1. SubSeq(queue, 2, Len(queue)) \in Seq(Jobs)
        BY <1>4, <2>1
      <4>2. Len(SubSeq(queue, 2, Len(queue))) = Len(queue) - 1
        BY <1>4, <2>1
      <4> QED BY <2>3, <4>1, <4>2
    <3>3. \A i \in 1..(Len(queue) - 1) : queue'[i] = queue[i + 1]
      <4> SUFFICES ASSUME NEW i \in 1..(Len(queue) - 1) PROVE queue'[i] = queue[i + 1]
        OBVIOUS
      <4> QED BY <1>4, <2>1, <2>3
    <3> QED BY <3>1, <3>2, <3>3
  <2>5. /\ First \in Nat /\ Len(runs) \in Nat /\ First + Len(queue) = Len(runs)
        /\ First' = First + 1 /\ First + 1 \in 1..Len(runs)
    BY <1>1, <2>1, <2>4, JobTypes DEF First
  <2>6. h = runs[First + 1] /\ jpc[h] = "queued" /\ h # j
    <3>1. h = runs[First + 1]
      BY <2>1 DEF JInv, Lined
    <3>2. jpc[runs[First + 1]] = "queued"
      BY <2>5 DEF JInv, Lined
    <3> QED BY <1>1, <3>1, <3>2
  <2>7. /\ jpc'[h] = "running" /\ jpc'[j] = to
        /\ \A k \in Jobs \ {h, j} : jpc'[k] = jpc[k]
        /\ status'[h] = "running" /\ \A k \in Jobs \ {h} : status'[k] = status[k]
    BY <1>2, <2>1, <2>3, <2>6 DEF Staged
  <2>8. Staged'
    BY <1>1, <1>2, <2>1, <2>3 DEF Staged
  <2>9. Sized'
    BY <1>1, <2>4 DEF JInv, Sized
  <2>10. Counted'
    <3>1. Working!Holding' = (Working!Holding \ {j}) \cup {h} /\ h \notin Working!Holding \ {j}
      BY <1>1, <2>1, <2>6, <2>7 DEF Working!Holding
    <3>2. IsFiniteSet((Working!Holding \ {j}) \cup {h})
          /\ Cardinality((Working!Holding \ {j}) \cup {h}) = active - 1 + 1
      BY <1>3, <3>1, FS_AddElement
    <3>3. active' = Cardinality((Working!Holding \ {j}) \cup {h})
      BY <2>4, <3>2, JobTypes
    <3> HIDE DEF h
    <3> QED BY <1>1, <2>1, <2>4, <3>1, <3>2, <3>3 DEF Counted
  <2>11. Lined'
    <3>1. \A i \in 1..Len(queue') : queue'[i] = runs[First' + i]
      <4> SUFFICES ASSUME NEW i \in 1..(Len(queue) - 1) PROVE queue[i + 1] = runs[First + 1 + i]
        BY <2>4, <2>5
      <4>1. i + 1 \in 1..Len(queue) /\ First + 1 + i = First + (i + 1)
        BY <2>1, <2>5
      <4> QED BY <4>1 DEF JInv, Lined
    <3>2. \A i \in 1..Len(runs) : runs[i] = h <=> i = First + 1
      BY <2>5, <2>6 DEF JInv, Lined
    <3>3. \A i \in 1..Len(runs) :
            jpc'[runs[i]] \notin {"idle", "mkdir"} /\ (jpc'[runs[i]] = "queued" <=> i > First + 1)
      <4> SUFFICES ASSUME NEW i \in 1..Len(runs)
                   PROVE  /\ jpc'[runs[i]] \notin {"idle", "mkdir"}
                          /\ jpc'[runs[i]] = "queued" <=> i > First + 1
        OBVIOUS
      <4>1. runs[i] \in Jobs /\ jpc[runs[i]] \notin {"idle", "mkdir"}
            /\ (jpc[runs[i]] = "queued" <=> i > First)
        BY JobTypes DEF JInv, Lined
      <4>2. CASE runs[i] = h
        BY <2>5, <2>7, <3>2, <4>2
      <4>3. CASE runs[i] = j
        BY <1>1, <2>5, <2>6, <2>7, <4>1, <4>3
      <4>4. CASE runs[i] \notin {h, j}
        BY <2>5, <2>7, <3>2, <4>1, <4>4
      <4> QED BY <4>2, <4>3, <4>4
    <3>4. Working!Queued' \subseteq Working!Queued
      BY <1>1, <2>1, <2>7 DEF Working!Queued
    <3> QED BY <1>1, <2>5, <3>1, <3>3, <3>4 DEF JInv, Lined
  <2>12. Told'
    BY <1>1, <2>1, <2>7 DEF JInv, Told
  <2> QED BY <2>8, <2>9, <2>10, <2>11, <2>12 DEF JInv
<1> QED BY <1>5, <1>6

LEMMA JNext == JInv /\ [Working!Next]_(Working!vars) => JInv'
<1> SUFFICES ASSUME JInv, [Working!Next]_(Working!vars) PROVE JInv'
  OBVIOUS
<1>1. CASE Working!Next
  BY <1>1, JobStep, PushStep, ReleaseStep, JobsCrash DEF Working!Next, Working!Proceed
<1>2. CASE UNCHANGED Working!vars
  BY <1>2 DEF Working!vars, JInv, Staged, Sized, Counted, Lined, Told, First,
     Working!Holding, Working!Queued
<1> QED BY <1>1, <1>2

(* Whatever jobs fail, time out or cannot be logged and whenever the       *)
(* gateway dies: the slots counted are those held, no job waits beside a   *)
(* free slot, jobs start in order and a timeout is never told as success   *)
(* (adminJobService.ts:214-225), for every number of jobs and slots.       *)
THEOREM SlotsSoundAlways == Working!Spec => []SlotsSound
<1>1. JInv => SlotsSound
  <2> SUFFICES ASSUME JInv PROVE SlotsSound
    OBVIOUS
  <2>1. Working!TypeOK
    BY DEF JInv, Staged, Sized, Working!TypeOK
  <2>2. Working!SlotsHeld
    BY JobsCardinality DEF JInv, Counted, Working!SlotsHeld
  <2>3. Working!WorkConserving
    <3> SUFFICES ASSUME NEW j \in Working!Queued PROVE active = limit
      BY DEF Working!WorkConserving
    <3>1. PICK i \in 1..Len(runs) : runs[i] = j
      BY DEF JInv, Lined
    <3>2. i > First
      BY <3>1 DEF JInv, Lined, Working!Queued
    <3>3. Len(queue) # 0
      BY <3>2, JobTypes DEF First
    <3> QED BY <3>3 DEF JInv, Counted
  <2>4. Working!InOrder
    <3> SUFFICES ASSUME NEW i \in 1..Len(runs), NEW k \in 1..Len(runs), i < k,
                        runs[i] \in Working!Queued
                 PROVE  runs[k] \in Working!Queued
      BY DEF JInv, Sized, Working!InOrder
    <3>1. i > First /\ k > First
      BY JobTypes DEF JInv, Lined, Working!Queued
    <3> QED BY <3>1, JobTypes DEF JInv, Lined, Working!Queued
  <2>5. Working!TimeoutTold
    BY DEF JInv, Staged, Told, Working!TimeoutTold
  <2> QED BY <2>1, <2>2, <2>3, <2>4, <2>5 DEF SlotsSound, Working!SlotsSound
<1> QED BY <1>1, JInit, JNext, PTL DEF Working!Spec
-----------------------------------------------------------------------------
(* EventBus.  The type invariant.                                          *)
Streamed ==
  /\ stream \subseteq Msgs /\ due \subseteq stream /\ handled \subseteq Members
  /\ inbox \in [Members -> Seq(Msgs)]
  /\ effects \in [Msgs -> Nat] /\ faults \in 0..MaxBusFaults

(* What was delivered was published, and what a handler did is counted.    *)
Known ==
  /\ \A p \in Members : \A i \in 1..Len(inbox[p]) : Bus!Published(inbox[p][i])
  /\ \A p \in handled : inbox[p] # <<>> /\ effects[Head(inbox[p])] > 0

(* Messages that still need their effect, and what can still bring about   *)
(* an effect: a copy in an inbox that is not handled, numbered from the    *)
(* end of the handled one, a message due, and one in no inbox that will be *)
(* due again.                                                              *)
Waiting == {m \in stream : effects[m] = 0}
Left(p) == IF p \in handled THEN Len(inbox[p]) - 1 ELSE Len(inbox[p])
Copies == {t \in Members \X Nat : t[2] \in 1..Left(t[1])}
Lost == {m \in stream \ due : ~Bus!InSomeInbox(m)}

(* Whatever may have an effect beyond those that wait, or had one, is paid *)
(* for by a fault.                                                         *)
Charged ==
  /\ IsFiniteSet(Bus!Repeats) /\ IsFiniteSet(Waiting)
  /\ IsFiniteSet(Copies) /\ IsFiniteSet(due) /\ IsFiniteSet(Lost)
  /\ Cardinality(Bus!Repeats) + Cardinality(Copies) + Cardinality(due) + Cardinality(Lost)
       <= Cardinality(Waiting) + faults

BInv == Streamed /\ Known /\ Charged

LEMMA BusCardinality == \A S : Bus!Cardinality(S) = Cardinality(S)
BY DEF Bus!Cardinality, Cardinality

LEMMA Numbers ==
  ASSUME BInv
  PROVE  /\ Cardinality(Bus!Repeats) \in Nat /\ Cardinality(Copies) \in Nat
         /\ Cardinality(due) \in Nat /\ Cardinality(Lost) \in Nat
         /\ Cardinality(Waiting) \in Nat /\ faults \in Nat
BY FS_CardinalityType DEF BInv, Charged, Streamed

LEMMA OneLess ==
  ASSUME NEW S, NEW x, x \in S, IsFiniteSet(S)
  PROVE  IsFiniteSet(S \ {x}) /\ Cardinality(S \ {x}) = Cardinality(S) - 1
BY FS_RemoveElement

LEMMA Fewer ==
  ASSUME NEW S, NEW T, IsFiniteSet(S), T \subseteq S
  PROVE  /\ IsFiniteSet(T) /\ Cardinality(T) \in Nat /\ Cardinality(S) \in Nat
         /\ Cardinality(T) <= Cardinality(S)
BY FS_Subset, FS_CardinalityType

LEMMA Unites ==
  ASSUME NEW S, NEW T, IsFiniteSet(S), IsFiniteSet(T)
  PROVE  /\ IsFiniteSet(S \cup T) /\ Cardinality(S \cup T) \in Nat
         /\ Cardinality(S \cup T) <= Cardinality(S) + Cardinality(T)
<1>1. /\ IsFiniteSet(S \cup T) /\ IsFiniteSet(S \cap T)
      /\ Cardinality(S \cup T) = Cardinality(S) + Cardinality(T) - Cardinality(S \cap T)
  BY FS_Union, FS_Intersection
<1> QED BY <1>1, FS_CardinalityType

LEMMA InboxTypes ==
  ASSUME BInv, NEW p \in Members
  PROVE  /\ inbox[p] \in Seq(Msgs) /\ Len(inbox[p]) \in Nat
         /\ DOMAIN inbox[p] = 1..Len(inbox[p])
         /\ \A i \in 1..Len(inbox[p]) : inbox[p][i] \in Msgs
         /\ Left(p) \in Nat /\ Left(p) <= Len(inbox[p])
         /\ p \in handled => Left(p) = Len(inbox[p]) - 1
         /\ p \notin handled => Left(p) = Len(inbox[p])
<1>1. inbox[p] \in Seq(Msgs)
  BY DEF BInv, Streamed
<1>2. /\ Len(inbox[p]) \in Nat /\ DOMAIN inbox[p] = 1..Len(inbox[p])
      /\ \A i \in 1..Len(inbox[p]) : inbox[p][i] \in Msgs
  BY <1>1
<1>3. p \in handled => Len(inbox[p]) # 0
  BY <1>1 DEF BInv, Known
<1> QED BY <1>1, <1>2, <1>3 DEF Left

LEMMA CopiesMembers ==
  ASSUME NEW p \in Members, NEW i
  PROVE  <<p, i>> \in Copies <=> i \in Nat /\ i \in 1..Left(p)
BY DEF Copies

LEMMA BInit == Bus!Init => BInv
<1> SUFFICES ASSUME Bus!Init PROVE BInv
  OBVIOUS
<1> USE DEF Bus!Init
<1>1. Streamed
  BY ServicesAssumption DEF Streamed, ServicesAssumption
<1>2. Known
  BY DEF Known
<1>3. /\ Bus!Repeats = {} /\ Waiting = {} /\ Copies = {} /\ due = {} /\ Lost = {}
  BY DEF Bus!Repeats, Waiting, Copies, Left, Lost
<1>4. Charged
  BY <1>3, FS_EmptySet DEF Charged
<1> QED BY <1>1, <1>2, <1>4 DEF BInv

(* A published message waits and is due.                                   *)
LEMMA PublishStep ==
  ASSUME BInv, NEW m \in Msgs, Bus!Publish(m)
  PROVE  BInv'
<1>1. /\ m \notin stream /\ effects[m] = 0
      /\ stream' = stream \cup {m} /\ due' = due \cup {m} /\ m \notin due
      /\ UNCHANGED <<inbox, handled, effects, faults>>
  BY DEF Bus!Publish, Bus!Published, BInv, Streamed
<1>2. Streamed'
  BY <1>1 DEF BInv, Streamed
<1>3. Known'
  BY <1>1 DEF BInv, Known, Bus!Published
<1>4. /\ Bus!Repeats' = Bus!Repeats /\ Copies' = Copies
      /\ Waiting' = Waiting \cup {m} /\ m \notin Waiting /\ Lost' = Lost
  BY <1>1 DEF Bus!Repeats, Copies, Left, Waiting, Lost, Bus!InSomeInbox
<1>5. /\ IsFiniteSet(Waiting \cup {m}) /\ IsFiniteSet(due \cup {m})
      /\ Cardinality(Waiting \cup {m}) = Cardinality(Waiting) + 1
      /\ Cardinality(due \cup {m}) = Cardinality(due) + 1
  BY <1>1, <1>4, FS_AddElement DEF BInv, Charged
<1>6. Charged'
  BY <1>1, <1>4, <1>5, Numbers DEF BInv, Charged
<1> QED BY <1>2, <1>3, <1>6 DEF BInv

(* A message due becomes a copy in an inbox.                               *)
LEMMA DeliverStep ==
  ASSUME BInv, NEW m \in Msgs, NEW p \in Members, Bus!Deliver(m, p)
  PROVE  BInv'
<1>1. /\ m \in due /\ m \in stream /\ due' = due \ {m}
      /\ inbox' = [inbox EXCEPT ![p] = Append(inbox[p], m)]
      /\ UNCHANGED <<stream, handled, effects, faults>>
  BY DEF Bus!Deliver, BInv, Streamed
<1>2. /\ inbox'[p] = Append(inbox[p], m) /\ inbox' \in [Members -> Seq(Msgs)]
      /\ \A q \in Members \ {p} : inbox'[q] = inbox[q]
  <2>1. Append(inbox[p], m) \in Seq(Msgs)
    BY InboxTypes
  <2> QED BY <1>1, <2>1 DEF BInv, Streamed
<1>3. /\ Len(inbox'[p]) = Len(inbox[p]) + 1 /\ inbox'[p][Len(inbox[p]) + 1] = m
      /\ \A i \in 1..Len(inbox[p]) : inbox'[p][i] = inbox[p][i]
      /\ DOMAIN inbox'[p] = 1..(Len(inbox[p]) + 1)
  BY <1>2, InboxTypes
<1>4. Streamed'
  BY <1>1, <1>2 DEF BInv, Streamed
<1>5. Known'
  <2>1. \A q \in Members : \A i \in 1..Len(inbox'[q]) : Bus!Published(inbox'[q][i])
    BY <1>1, <1>2, <1>3, InboxTypes DEF BInv, Known, Bus!Published
  <2>2. \A q \in handled : inbox'[q] # <<>> /\ effects[Head(inbox'[q])] > 0
    <3> SUFFICES ASSUME NEW q \in handled
                 PROVE  inbox'[q] # <<>> /\ effects[Head(inbox'[q])] > 0
      OBVIOUS
    <3>1. q \in Members /\ inbox[q] # <<>> /\ effects[Head(inbox[q])] > 0
      BY DEF BInv, Known, Streamed
    <3>2. CASE q # p
      BY <1>2, <3>1, <3>2
    <3>3. CASE q = p
      <4>1. inbox'[p] # <<>> /\ Head(inbox'[p]) = Head(inbox[p])
        BY <1>2, <3>1, <3>3, InboxTypes
      <4> QED BY <3>1, <3>3, <4>1
    <3> QED BY <3>2, <3>3
  <2> QED BY <1>1, <2>1, <2>2 DEF Known, Bus!Published
<1>6. Left(p)' = Left(p) + 1 /\ \A q \in Members \ {p} : Left(q)' = Left(q)
  BY <1>1, <1>2, <1>3, InboxTypes DEF Left
<1>7. Copies' = Copies \cup {<<p, Left(p) + 1>>} /\ <<p, Left(p) + 1>> \notin Copies
  BY <1>6, InboxTypes DEF Copies
<1>8. Lost' = Lost
  <2>1. \A k \in Msgs \ {m} : Bus!InSomeInbox(k)' <=> Bus!InSomeInbox(k)
    <3> SUFFICES ASSUME NEW k \in Msgs \ {m}
                 PROVE  Bus!InSomeInbox(k)' <=> Bus!InSomeInbox(k)
      OBVIOUS
    <3>1. ASSUME NEW q \in Members, NEW i \in DOMAIN inbox'[q], inbox'[q][i] = k
          PROVE  i \in DOMAIN inbox[q] /\ inbox[q][i] = k
      <4>1. CASE q = p
        <5>1. i \in 1..(Len(inbox[p]) + 1) /\ i # Len(inbox[p]) + 1
          BY <1>3, <3>1, <4>1
        <5> QED BY <1>3, <3>1, <4>1, <5>1, InboxTypes
      <4>2. CASE q # p
        BY <1>2, <3>1, <4>2
      <4> QED BY <4>1, <4>2
    <3>2. ASSUME NEW q \in Members, NEW i \in DOMAIN inbox[q], inbox[q][i] = k
          PROVE  i \in DOMAIN inbox'[q] /\ inbox'[q][i] = k
      <4>1. CASE q = p
        <5>1. i \in 1..Len(inbox[p]) /\ i \in 1..(Len(inbox[p]) + 1)
          BY <3>2, <4>1, InboxTypes
        <5> QED BY <1>3, <3>2, <4>1, <5>1
      <4>2. CASE q # p
        BY <1>2, <3>2, <4>2
      <4> QED BY <4>1, <4>2
    <3> QED BY <3>1, <3>2 DEF Bus!InSomeInbox
  <2>2. Bus!InSomeInbox(m)'
    BY <1>3, InboxTypes DEF Bus!InSomeInbox
  <2> QED BY <1>1, <2>1, <2>2 DEF Lost, BInv, Streamed
<1>9. Bus!Repeats' = Bus!Repeats /\ Waiting' = Waiting
  BY <1>1 DEF Bus!Repeats, Waiting
<1>10. /\ IsFiniteSet(due') /\ Cardinality(due') = Cardinality(due) - 1
       /\ IsFiniteSet(Copies') /\ Cardinality(Copies') = Cardinality(Copies) + 1
  <2>1. IsFiniteSet(due \ {m}) /\ Cardinality(due \ {m}) = Cardinality(due) - 1
    BY <1>1, OneLess DEF BInv, Charged
  <2>2. /\ IsFiniteSet(Copies \cup {<<p, Left(p) + 1>>})
        /\ Cardinality(Copies \cup {<<p, Left(p) + 1>>}) = Cardinality(Copies) + 1
    BY <1>7, FS_AddElement DEF BInv, Charged
  <2> QED BY <1>1, <1>7, <2>1, <2>2
<1>11. Charged'
  BY <1>1, <1>8, <1>9, <1>10, Numbers DEF BInv, Charged
<1> QED BY <1>4, <1>5, <1>11 DEF BInv

(* The handler of a message that waits, or of one it repeats, has run.     *)
LEMMA HandleStep ==
  ASSUME BInv, NEW p \in Members, Bus!Handle(p)
  PROVE  BInv'
<1> DEFINE m == Head(inbox[p])
           n == effects[m] + 1
<1>1. /\ inbox[p] # <<>> /\ p \notin handled
      /\ handled' = handled \cup {p}
      /\ effects' = [effects EXCEPT ![m] = n]
      /\ UNCHANGED <<stream, due, inbox, faults>>
  BY DEF Bus!Handle, Bus!Next1
<1>2. /\ m = inbox[p][1] /\ m \in Msgs /\ 1 \in 1..Len(inbox[p]) /\ Bus!Published(m)
      /\ effects[m] \in Nat
  BY <1>1, InboxTypes DEF BInv, Known, Streamed
<1>3. /\ effects' \in [Msgs -> Nat] /\ effects'[m] = n /\ n \in Nat /\ n > 0
      /\ \A k \in Msgs \ {m} : effects'[k] = effects[k]
      /\ \A k \in Msgs : effects'[k] >= effects[k] /\ effects[k] \in Nat
  BY <1>1, <1>2 DEF BInv, Streamed
<1>4. Streamed'
  BY <1>1, <1>3 DEF BInv, Streamed
<1>5. Known'
  <2>1. \A k \in Msgs : Bus!Published(k) => Bus!Published(k)'
    BY <1>1, <1>3 DEF Bus!Published
  <2>2. \A q \in Members : \A i \in 1..Len(inbox[q]) : Bus!Published(inbox[q][i])'
    BY <1>1, <2>1, InboxTypes DEF BInv, Known, Bus!Published
  <2>3. \A q \in handled \cup {p} : inbox[q] # <<>> /\ effects'[Head(inbox[q])] > 0
    <3> SUFFICES ASSUME NEW q \in handled \cup {p}
                 PROVE  inbox[q] # <<>> /\ effects'[Head(inbox[q])] > 0
      OBVIOUS
    <3>1. CASE q = p
      BY <1>1, <1>3, <3>1
    <3>2. CASE q \in handled
      <4>1. q \in Members /\ inbox[q] # <<>> /\ effects[Head(inbox[q])] > 0
        BY <3>2 DEF BInv, Known, Streamed
      <4>2. Head(inbox[q]) \in Msgs
        BY <4>1, InboxTypes
      <4> HIDE DEF m, n
      <4> QED BY <1>3, <4>1, <4>2
    <3> QED BY <3>1, <3>2
  <2> QED BY <1>1, <2>2, <2>3 DEF Known, Bus!Published
<1>6. Left(p)' = Left(p) - 1 /\ Left(p) > 0 /\ \A q \in Members \ {p} : Left(q)' = Left(q)
  BY <1>1, <1>2, InboxTypes DEF Left
<1>7. Copies' = Copies \ {<<p, Left(p)>>} /\ <<p, Left(p)>> \in Copies
  BY <1>6, InboxTypes DEF Copies
<1>8. IsFiniteSet(Copies') /\ Cardinality(Copies') = Cardinality(Copies) - 1
  BY <1>7, OneLess DEF BInv, Charged
<1>9. Lost' = Lost
  BY <1>1 DEF Lost, Bus!InSomeInbox
<1>10. CASE effects[m] = 0
  <2>1. Waiting' = Waiting \ {m} /\ m \in Waiting
    BY <1>1, <1>2, <1>3, <1>10 DEF Waiting, Bus!Published, BInv, Streamed
  <2>2. Bus!Repeats' = Bus!Repeats
    <3>1. 2..effects'[m] = 2..effects[m]
      BY <1>3, <1>10
    <3> HIDE DEF m, n
    <3>2. \A k \in Msgs : 2..effects'[k] = 2..effects[k]
      BY <1>3, <3>1
    <3> QED BY <3>2 DEF Bus!Repeats
  <2>3. IsFiniteSet(Waiting') /\ Cardinality(Waiting') = Cardinality(Waiting) - 1
    BY <2>1, OneLess DEF BInv, Charged
  <2> QED BY <1>1, <1>4, <1>5, <1>8, <1>9, <2>2, <2>3, Numbers DEF BInv, Charged
<1>11. CASE effects[m] # 0
  <2>1. Waiting' = Waiting
    BY <1>1, <1>2, <1>3, <1>11 DEF Waiting, BInv, Streamed
  <2>2. Bus!Repeats' = Bus!Repeats \cup {<<m, n>>}
    <3>1. 2..effects'[m] = 2..effects[m] \cup {n}
      BY <1>2, <1>3, <1>11
    <3> HIDE DEF m, n
    <3>2. Bus!Repeats' = UNION {{<<k, l>> : l \in 2..effects'[k]} : k \in Msgs}
      BY DEF Bus!Repeats
    <3> QED BY <1>2, <1>3, <3>1, <3>2 DEF Bus!Repeats
  <2>3. IsFiniteSet(Bus!Repeats') /\ Cardinality(Bus!Repeats') \in Nat
        /\ Cardinality(Bus!Repeats') <= Cardinality(Bus!Repeats) + 1
    BY <2>2, OneMore DEF BInv, Charged
  <2> QED BY <1>1, <1>4, <1>5, <1>8, <1>9, <2>1, <2>3, Numbers DEF BInv, Charged
<1> QED BY <1>10, <1>11

(* The first message of an inbox is done with.                             *)
LEMMA DoneFacts ==
  ASSUME BInv, NEW p \in Members, inbox[p] # <<>>, Bus!Done(p), handled' = handled \ {p}
  PROVE  /\ inbox' \in [Members -> Seq(Msgs)] /\ Head(inbox[p]) \in Msgs
         /\ \A q \in Members : \A i \in 1..Len(inbox'[q]) :
              \E k \in 1..Len(inbox[q]) : inbox'[q][i] = inbox[q][k]
         /\ \A q \in Members \ {p} : inbox'[q] = inbox[q]
         /\ \A m \in Msgs \ {Head(inbox[p])} : Bus!InSomeInbox(m)' <=> Bus!InSomeInbox(m)
         /\ Bus!InSomeInbox(Head(inbox[p]))
         /\ p \in handled => Copies' = Copies
         /\ p \notin handled => /\ Copies' = Copies \ {<<p, Left(p)>>}
                                /\ <<p, Left(p)>> \in Copies
<1> DEFINE h == Head(inbox[p])
<1>1. /\ inbox' = [inbox EXCEPT ![p] = Tail(inbox[p])] /\ Tail(inbox[p]) \in Seq(Msgs)
      /\ Len(inbox[p]) > 0 /\ h = inbox[p][1] /\ h \in Msgs
      /\ Len(Tail(inbox[p])) = Len(inbox[p]) - 1
      /\ \A i \in 1..(Len(inbox[p]) - 1) : Tail(inbox[p])[i] = inbox[p][i + 1]
  BY InboxTypes DEF Bus!Done
<1>2. /\ inbox' \in [Members -> Seq(Msgs)]
      /\ inbox'[p] = Tail(inbox[p])
      /\ \A q \in Members \ {p} : inbox'[q] = inbox[q]
  BY <1>1 DEF BInv, Streamed
<1>3. /\ Len(inbox'[p]) = Len(inbox[p]) - 1 /\ DOMAIN inbox'[p] = 1..(Len(inbox[p]) - 1)
      /\ \A i \in 1..(Len(inbox[p]) - 1) : inbox'[p][i] = inbox[p][i + 1]
  BY <1>1, <1>2
<1>4. \A q \in Members : \A i \in 1..Len(inbox'[q]) :
        \E k \in 1..Len(inbox[q]) : inbox'[q][i] = inbox[q][k]
  <2> SUFFICES ASSUME NEW q \in Members, NEW i \in 1..Len(inbox'[q])
               PROVE  \E k \in 1..Len(inbox[q]) : inbox'[q][i] = inbox[q][k]
    OBVIOUS
  <2>1. CASE q = p
    <3>1. i + 1 \in 1..Len(inbox[p]) /\ i \in 1..(Len(inbox[p]) - 1)
      BY <1>3, <2>1, InboxTypes
    <3> QED BY <1>3, <2>1, <3>1
  <2>2. CASE q # p
    BY <1>2, <2>2
  <2> QED BY <2>1, <2>2
<1>5. \A m \in Msgs \ {h} : Bus!InSomeInbox(m)' <=> Bus!InSomeInbox(m)
  <2> SUFFICES ASSUME NEW m \in Msgs \ {h}
               PROVE  Bus!InSomeInbox(m)' <=> Bus!InSomeInbox(m)
    OBVIOUS
  <2>1. ASSUME NEW q \in Members, NEW i \in DOMAIN inbox'[q], inbox'[q][i] = m
        PROVE  Bus!InSomeInbox(m)
    <3>1. i \in 1..Len(inbox'[q])
      BY <1>2, <1>3, <2>1, InboxTypes
    <3> QED BY <1>4, <2>1, <3>1, InboxTypes DEF Bus!InSomeInbox
  <2>2. ASSUME NEW q \in Members, NEW i \in DOMAIN inbox[q], inbox[q][i] = m
        PROVE  \E k \in DOMAIN inbox'[q] : inbox'[q][k] = m
    <3>1. CASE q # p
      BY <1>2, <2>2, <3>1
    <3>2. CASE q = p
      <4>1. i \in 1..Len(inbox[p]) /\ i # 1
        BY <1>1, <2>2, <3>2, InboxTypes
      <4>2. i - 1 \in 1..(Len(inbox[p]) - 1) /\ (i - 1) + 1 = i
        BY <4>1, InboxTypes
      <4>3. inbox'[p][i - 1] = m
        BY <1>3, <2>2, <3>2, <4>2
      <4> QED BY <1>3, <3>2, <4>2, <4>3
    <3> QED BY <3>1, <3>2
  <2> QED BY <2>1, <2>2 DEF Bus!InSomeInbox
<1>6. Bus!InSomeInbox(h)
  BY <1>1, InboxTypes DEF Bus!InSomeInbox
<1>7. /\ \A q \in Members \ {p} : Left(q)' = Left(q)
      /\ Left(p)' = Len(inbox[p]) - 1
  BY <1>2, <1>3 DEF Left
<1>8. p \in handled => Copies' = Copies
  BY <1>7, InboxTypes DEF Copies
<1>9. p \notin handled =>
        Copies' = Copies \ {<<p, Left(p)>>} /\ <<p, Left(p)>> \in Copies
  <2> SUFFICES ASSUME p \notin handled
               PROVE  Copies' = Copies \ {<<p, Left(p)>>} /\ <<p, Left(p)>> \in Copies
    OBVIOUS
  <2>1. Left(p) > 0 /\ Left(p)' = Left(p) - 1 /\ Left(p) \in Nat
    BY <1>1, <1>7, InboxTypes
  <2> QED BY <1>7, <2>1, InboxTypes DEF Copies
<1> QED BY <1>1, <1>2, <1>4, <1>5, <1>6, <1>8, <1>9

LEMMA DoneKeepsKnown ==
  ASSUME BInv, NEW p \in Members, inbox[p] # <<>>, Bus!Done(p), handled' = handled \ {p},
         UNCHANGED effects,
         \A m \in Msgs : Bus!Published(m) => Bus!Published(m)'
  PROVE  Known'
<1>1. \A q \in Members : \A i \in 1..Len(inbox'[q]) :
        inbox'[q][i] \in stream' \/ effects'[inbox'[q][i]] > 0
  <2> SUFFICES ASSUME NEW q \in Members, NEW i \in 1..Len(inbox'[q])
               PROVE  inbox'[q][i] \in stream' \/ effects'[inbox'[q][i]] > 0
    OBVIOUS
  <2>1. PICK k \in 1..Len(inbox[q]) : inbox'[q][i] = inbox[q][k]
    BY DoneFacts
  <2>2. inbox[q][k] \in Msgs /\ Bus!Published(inbox[q][k])
    BY InboxTypes DEF BInv, Known
  <2> QED BY <2>1, <2>2 DEF Bus!Published
<1>2. \A q \in handled' : inbox'[q] # <<>> /\ effects'[Head(inbox'[q])] > 0
  <2>1. \A q \in handled' : q \in handled /\ q \in Members /\ inbox'[q] = inbox[q]
    BY DoneFacts DEF BInv, Streamed
  <2> QED BY <2>1 DEF BInv, Known
<1> QED BY <1>1, <1>2 DEF Known, Bus!Published

(* An acknowledgement removes a message that had its effect; if it is lost *)
(* the message may be due again.                                           *)
LEMMA AckStep ==
  ASSUME BInv, NEW p \in Members, Bus!Ack(p) \/ Bus!LoseAck(p)
  PROVE  BInv'
<1> DEFINE m == Head(inbox[p])
<1>1. /\ p \in handled /\ inbox[p] # <<>> /\ effects[m] > 0 /\ effects[m] # 0
      /\ handled' = handled \ {p} /\ Bus!Done(p) /\ UNCHANGED effects
  BY DEF Bus!Ack, Bus!LoseAck, BInv, Known, Streamed
<1>2. \/ stream' = stream \ {m} /\ due' = due \ {m} /\ faults' = faults
      \/ stream' = stream /\ due' = due /\ faults' = faults + 1 /\ faults < MaxBusFaults
  BY DEF Bus!Ack, Bus!LoseAck
<1>3. /\ m \in Msgs /\ Copies' = Copies /\ inbox' \in [Members -> Seq(Msgs)]
      /\ \A k \in Msgs \ {m} : Bus!InSomeInbox(k)' <=> Bus!InSomeInbox(k)
  BY <1>1, DoneFacts
<1>4. Streamed'
  <2>1. faults' \in 0..MaxBusFaults
    BY <1>2, ServicesAssumption DEF BInv, Streamed, ServicesAssumption
  <2> HIDE DEF m
  <2> QED BY <1>1, <1>2, <1>3, <2>1 DEF BInv, Streamed
<1>5. Known'
  <2>1. \A k \in Msgs : Bus!Published(k) => Bus!Published(k)'
    BY <1>1, <1>2 DEF Bus!Published
  <2> QED BY <1>1, <2>1, DoneKeepsKnown
<1> HIDE DEF m
<1>6. Bus!Repeats' = Bus!Repeats /\ Waiting' = Waiting
  BY <1>1, <1>2 DEF Bus!Repeats, Waiting
<1>7. due' \subseteq due
  BY <1>2
<1>8. CASE faults' = faults
  <2>1. stream' = stream \ {m} /\ due' = due \ {m}
    BY <1>2, <1>8, Numbers
  <2>2. Lost' \subseteq Lost
    BY <1>3, <2>1 DEF Lost, BInv, Streamed
  <2>3. /\ IsFiniteSet(due') /\ Cardinality(due') <= Cardinality(due) /\ Cardinality(due') \in Nat
        /\ IsFiniteSet(Lost') /\ Cardinality(Lost') <= Cardinality(Lost)
        /\ Cardinality(Lost') \in Nat
    BY <1>7, <2>2, Fewer DEF BInv, Charged
  <2> QED BY <1>3, <1>4, <1>5, <1>6, <1>8, <2>3, Numbers DEF BInv, Charged
<1>9. CASE faults' # faults
  <2>1. stream' = stream /\ due' = due /\ faults' = faults + 1
    BY <1>2, <1>9
  <2>2. Lost' \subseteq Lost \cup {m}
    BY <1>3, <2>1 DEF Lost, BInv, Streamed
  <2>3. /\ IsFiniteSet(Lost') /\ Cardinality(Lost') <= Cardinality(Lost) + 1
        /\ Cardinality(Lost') \in Nat
    BY <2>2, OneMore DEF BInv, Charged
  <2> QED BY <1>3, <1>4, <1>5, <1>6, <2>1, <2>3, Numbers DEF BInv, Charged
<1> QED BY <1>8, <1>9

(* A handler that fails gives its copy back: the message is due again.     *)
LEMMA FailStep ==
  ASSUME BInv, NEW p \in Members, Bus!Fail(p)
  PROVE  BInv'
<1> DEFINE m == Head(inbox[p])
<1>1. /\ p \notin handled /\ inbox[p] # <<>> /\ handled' = handled \ {p} /\ handled' = handled
      /\ Bus!Done(p) /\ UNCHANGED <<stream, effects>>
      /\ due' = IF m \in stream THEN due \cup {m} ELSE due
  BY DEF Bus!Fail, Bus!Next1, Bus!Again
<1>2. faults' \in 0..MaxBusFaults /\ faults <= faults'
  BY ServicesAssumption DEF Bus!Fail, BInv, Streamed, ServicesAssumption
<1>3. /\ m \in Msgs /\ inbox' \in [Members -> Seq(Msgs)]
      /\ Copies' = Copies \ {<<p, Left(p)>>} /\ <<p, Left(p)>> \in Copies
      /\ \A k \in Msgs \ {m} : Bus!InSomeInbox(k)' <=> Bus!InSomeInbox(k)
  BY <1>1, DoneFacts
<1>4. Known'
  BY <1>1, DoneKeepsKnown DEF Bus!Published
<1> HIDE DEF m
<1>5. Streamed'
  BY <1>1, <1>2, <1>3 DEF BInv, Streamed
<1>6. Bus!Repeats' = Bus!Repeats /\ Waiting' = Waiting
  BY <1>1 DEF Bus!Repeats, Waiting
<1>7. Lost' \subseteq Lost
  BY <1>1, <1>3 DEF Lost, BInv, Streamed
<1>8. /\ IsFiniteSet(Lost') /\ Cardinality(Lost') <= Cardinality(Lost) /\ Cardinality(Lost') \in Nat
      /\ IsFiniteSet(Copies') /\ Cardinality(Copies') = Cardinality(Copies) - 1
      /\ IsFiniteSet(due') /\ Cardinality(due') <= Cardinality(due) + 1 /\ Cardinality(due') \in Nat
  <2>1. IsFiniteSet(Lost') /\ Cardinality(Lost') <= Cardinality(Lost) /\ Cardinality(Lost') \in Nat
    BY <1>7, Fewer DEF BInv, Charged
  <2>2. IsFiniteSet(Copies') /\ Cardinality(Copies') = Cardinality(Copies) - 1
    BY <1>3, OneLess DEF BInv, Charged
  <2>3. due' \subseteq due \cup {m}
    BY <1>1
  <2>4. /\ IsFiniteSet(due') /\ Cardinality(due') <= Cardinality(due) + 1
        /\ Cardinality(due') \in Nat
    BY <2>3, OneMore DEF BInv, Charged
  <2> QED BY <2>1, <2>2, <2>4
<1>9. Charged'
  BY <1>2, <1>6, <1>8, Numbers DEF BInv, Charged
<1> QED BY <1>4, <1>5, <1>9 DEF BInv

(* A message in no inbox becomes due again; one in an inbox is then under  *)
(* way twice, which is a fault.                                            *)
LEMMA RedeliverStep ==
  ASSUME BInv, NEW m \in Msgs, Bus!Redeliver(m)
  PROVE  BInv'
<1>1. /\ m \in stream /\ m \notin due /\ due' = due \cup {m}
      /\ UNCHANGED <<stream, inbox, handled, effects>>
  BY DEF Bus!Redeliver
<1>2. \/ Bus!InSomeInbox(m) /\ faults' = faults + 1 /\ faults < MaxBusFaults
      \/ ~Bus!InSomeInbox(m) /\ faults' = faults
  BY DEF Bus!Redeliver
<1>3. Streamed'
  BY <1>1, <1>2, ServicesAssumption DEF BInv, Streamed, ServicesAssumption
<1>4. Known'
  BY <1>1 DEF BInv, Known, Bus!Published
<1>5. Bus!Repeats' = Bus!Repeats /\ Waiting' = Waiting /\ Copies' = Copies
  BY <1>1 DEF Bus!Repeats, Waiting, Copies, Left
<1>6. IsFiniteSet(due') /\ Cardinality(due') = Cardinality(due) + 1
  BY <1>1, FS_AddElement DEF BInv, Charged
<1>7. CASE Bus!InSomeInbox(m)
  <2>1. Lost' = Lost
    BY <1>1, <1>7 DEF Lost, Bus!InSomeInbox
  <2>2. faults' = faults + 1
    BY <1>2, <1>7
  <2> QED BY <1>3, <1>4, <1>5, <1>6, <2>1, <2>2, Numbers DEF BInv, Charged
<1>8. CASE ~Bus!InSomeInbox(m)
  <2>1. Lost' = Lost \ {m} /\ m \in Lost
    BY <1>1, <1>8 DEF Lost, Bus!InSomeInbox
  <2>2. IsFiniteSet(Lost') /\ Cardinality(Lost') = Cardinality(Lost) - 1
    BY <2>1, OneLess DEF BInv, Charged
  <2>3. faults' = faults
    BY <1>2, <1>8
  <2> QED BY <1>3, <1>4, <1>5, <1>6, <2>2, <2>3, Numbers DEF BInv, Charged
<1> QED BY <1>7, <1>8

(* Copies carry at most as many messages as they are.                      *)
LEMMA ImageSmaller ==
  ASSUME NEW D, NEW f, NEW T, IsFiniteSet(D), T = {f[x] : x \in D}
  PROVE  /\ IsFiniteSet(T) /\ Cardinality(T) \in Nat /\ Cardinality(D) \in Nat
         /\ Cardinality(T) <= Cardinality(D)
<1> DEFINE g == [x \in D |-> f[x]]
<1>1. g \in Surjection(D, T)
  BY DEF Surjection
<1> QED BY <1>1, FS_Surjection, FS_CardinalityType

Offset(p) == IF p \in handled THEN 1 ELSE 0
Carried == [t \in Copies |-> inbox[t[1]][t[2] + Offset(t[1])]]

LEMMA CarriedBy ==
  ASSUME BInv, NEW p \in Members, NEW i \in 1..Len(inbox[p]), p \notin handled \/ i # 1
  PROVE  /\ <<p, i - Offset(p)>> \in Copies
         /\ Carried[<<p, i - Offset(p)>>] = inbox[p][i]
<1>1. i - Offset(p) \in Nat /\ i - Offset(p) \in 1..Left(p) /\ i - Offset(p) + Offset(p) = i
  BY InboxTypes DEF Offset
<1>2. <<p, i - Offset(p)>> \in Copies
  BY <1>1 DEF Copies
<1> QED BY <1>1, <1>2 DEF Carried

(* A member that dies loses its copies; at most as many messages, and the  *)
(* one it had handled, are in no inbox then.                               *)
LEMMA BusCrashStep ==
  ASSUME BInv, NEW p \in Members, Bus!Crash(p)
  PROVE  BInv'
<1> DEFINE h == Head(inbox[p])
           Mine == {t \in Copies : t[1] = p}
           Dropped == {Carried[t] : t \in Mine}
<1>1. /\ inbox[p] # <<>> /\ faults' = faults + 1 /\ faults < MaxBusFaults
      /\ inbox' = [inbox EXCEPT ![p] = <<>>] /\ handled' = handled \ {p}
      /\ UNCHANGED <<stream, due, effects>>
  BY DEF Bus!Crash
<1>2. /\ inbox' \in [Members -> Seq(Msgs)] /\ inbox'[p] = <<>> /\ Len(inbox'[p]) = 0
      /\ \A q \in Members \ {p} : inbox'[q] = inbox[q]
  BY <1>1 DEF BInv, Streamed
<1>3. Streamed'
  BY <1>1, <1>2, ServicesAssumption DEF BInv, Streamed, ServicesAssumption
<1>4. Known'
  BY <1>1, <1>2 DEF BInv, Known, Streamed, Bus!Published
<1>5. Bus!Repeats' = Bus!Repeats /\ Waiting' = Waiting
  BY <1>1 DEF Bus!Repeats, Waiting
<1>6. Copies' = Copies \ Mine
  <2>1. Left(p)' = 0 /\ \A q \in Members \ {p} : Left(q)' = Left(q)
    BY <1>1, <1>2 DEF Left
  <2> QED BY <2>1 DEF Copies
<1>7. Lost' \subseteq (Lost \cup Dropped) \cup {h}
  <2> SUFFICES ASSUME NEW m \in Lost', m # h, m \notin Lost PROVE m \in Dropped
    OBVIOUS
  <2>1. m \in stream \ due /\ Bus!InSomeInbox(m) /\ ~Bus!InSomeInbox(m)'
    BY <1>1 DEF Lost
  <2>2. PICK q \in Members : \E i \in 1..Len(inbox[q]) : inbox[q][i] = m
    BY <2>1, InboxTypes DEF Bus!InSomeInbox
  <2>3. q = p
    BY <1>2, <2>1, <2>2, InboxTypes DEF Bus!InSomeInbox
  <2>4. PICK i \in 1..Len(inbox[p]) : inbox[p][i] = m
    BY <2>2, <2>3
  <2>5. i # 1
    BY <1>1, <2>4, InboxTypes
  <2>6. <<p, i - Offset(p)>> \in Mine /\ Carried[<<p, i - Offset(p)>>] = m
    BY <2>4, <2>5, CarriedBy
  <2> QED BY <2>6
<1> HIDE DEF h, Mine, Dropped
<1>8. /\ IsFiniteSet(Copies') /\ Cardinality(Copies') = Cardinality(Copies) - Cardinality(Mine)
      /\ IsFiniteSet(Mine) /\ Cardinality(Mine) \in Nat
  <2>1. Mine \subseteq Copies /\ Copies \cap Mine = Mine /\ IsFiniteSet(Copies)
    BY DEF Mine, BInv, Charged
  <2> QED BY <1>6, <2>1, FS_Difference, Fewer
<1>9. IsFiniteSet(Lost') /\ Cardinality(Lost') \in Nat
      /\ Cardinality(Lost') <= Cardinality(Lost) + Cardinality(Mine) + 1
  <2>1. /\ IsFiniteSet(Dropped) /\ Cardinality(Dropped) \in Nat
        /\ Cardinality(Dropped) <= Cardinality(Mine)
    BY <1>8, ImageSmaller DEF Dropped
  <2>2. /\ IsFiniteSet(Lost \cup Dropped)
        /\ Cardinality(Lost \cup Dropped) <= Cardinality(Lost) + Cardinality(Dropped)
        /\ Cardinality(Lost \cup Dropped) \in Nat
    BY <2>1, Unites DEF BInv, Charged
  <2>3. IsFiniteSet(Lost') /\ Cardinality(Lost') \in Nat
        /\ Cardinality(Lost') <= Cardinality(Lost \cup Dropped) + 1
    BY <1>7, <2>2, OneMore
  <2> QED BY <1>8, <2>1, <2>2, <2>3, Numbers
<1>10. Charged'
  <2>1. /\ Cardinality(Bus!Repeats) + Cardinality(Copies) + Cardinality(due) + Cardinality(Lost)
              <= Cardinality(Waiting) + faults
        /\ IsFiniteSet(Bus!Repeats) /\ IsFiniteSet(Waiting) /\ IsFiniteSet(due)
    BY DEF BInv, Charged
  <2>2. Cardinality(Copies') \in Nat
    BY <1>8, FS_CardinalityType
  <2>3. Cardinality(Bus!Repeats) + Cardinality(Copies') + Cardinality(due) + Cardinality(Lost')
          <= Cardinality(Waiting) + faults'
    <3>1. faults' = faults + 1
      BY <1>1
    <3>2. /\ Cardinality(Copies') = Cardinality(Copies) - Cardinality(Mine)
          /\ Cardinality(Mine) \in Nat
          /\ Cardinality(Lost') <= Cardinality(Lost) + Cardinality(Mine) + 1
          /\ Cardinality(Lost') \in Nat
      BY <1>8, <1>9
    <3> QED BY <2>1, <2>2, <3>1, <3>2, Numbers
  <2> QED BY <1>1, <1>5, <1>8, <1>9, <2>1, <2>3 DEF Charged
<1> QED BY <1>3, <1>4, <1>10 DEF BInv

LEMMA BNext == BInv /\ [Bus!Next]_(Bus!vars) => BInv'
<1> SUFFICES ASSUME BInv, [Bus!Next]_(Bus!vars) PROVE BInv'
  OBVIOUS
<1>1. CASE Bus!Next
  BY <1>1, PublishStep, DeliverStep, HandleStep, AckStep, FailStep, RedeliverStep, BusCrashStep
     DEF Bus!Next, Bus!Serve, Bus!Receive
<1>2. CASE UNCHANGED Bus!vars
  BY <1>2 DEF Bus!vars, BInv, Streamed, Known, Charged, Bus!Published, Bus!Repeats, Waiting,
     Copies, Left, Lost, Bus!InSomeInbox
<1> QED BY <1>1, <1>2

(* However often messages are delivered, acknowledgements are lost,        *)
(* handlers fail and members die: each repetition of an event's effect is  *)
(* paid for by a fault (nats-bus.ts:72-82), for every number of messages   *)
(* and members.                                                            *)
THEOREM DeliverySoundAlways == Bus!Spec => []DeliverySound
<1>1. BInv => DeliverySound
  <2> SUFFICES ASSUME BInv PROVE DeliverySound
    OBVIOUS
  <2> DEFINE Carrying == {Carried[t] : t \in Copies}
  <2>1. Waiting \subseteq (due \cup Lost) \cup Carrying
    <3> SUFFICES ASSUME NEW m \in Waiting, m \notin due, m \notin Lost PROVE m \in Carrying
      OBVIOUS
    <3>1. m \in stream /\ effects[m] = 0 /\ Bus!InSomeInbox(m)
      BY DEF Waiting, Lost
    <3>2. PICK q \in Members : \E i \in 1..Len(inbox[q]) : inbox[q][i] = m
      BY <3>1, InboxTypes DEF Bus!InSomeInbox
    <3>3. PICK i \in 1..Len(inbox[q]) : inbox[q][i] = m
      BY <3>2
    <3>4. q \notin handled \/ i # 1
      <4> SUFFICES ASSUME q \in handled, i = 1 PROVE FALSE
        OBVIOUS
      <4>1. Head(inbox[q]) = m
        BY <3>3, InboxTypes
      <4> QED BY <3>1, <4>1 DEF BInv, Known
    <3> QED BY <3>3, <3>4, CarriedBy
  <2> HIDE DEF Carrying
  <2>2. /\ IsFiniteSet(Carrying) /\ Cardinality(Carrying) \in Nat
        /\ Cardinality(Carrying) <= Cardinality(Copies)
    BY ImageSmaller DEF Carrying, BInv, Charged
  <2>3. /\ IsFiniteSet(due \cup Lost) /\ Cardinality(due \cup Lost) \in Nat
        /\ Cardinality(due \cup Lost) <= Cardinality(due) + Cardinality(Lost)
    BY Unites DEF BInv, Charged
  <2>4. /\ IsFiniteSet((due \cup Lost) \cup Carrying)
        /\ Cardinality((due \cup Lost) \cup Carrying) \in Nat
        /\ Cardinality((due \cup Lost) \cup Carrying)
             <= Cardinality(due \cup Lost) + Cardinality(Carrying)
    BY <2>2, <2>3, Unites
  <2>5. Cardinality(Waiting) <= Cardinality((due \cup Lost) \cup Carrying)
    BY <2>1, <2>4, Fewer
  <2>6. Cardinality(Bus!Repeats) <= faults
    BY <2>2, <2>3, <2>4, <2>5, Numbers DEF BInv, Charged
  <2>7. Bus!TypeOK
    BY DEF BInv, Streamed, Bus!TypeOK
  <2> QED BY <2>6, <2>7, BusCardinality
     DEF DeliverySound, Bus!DeliverySound, Bus!RepeatsExplained
<1> QED BY <1>1, BInit, BNext, PTL DEF Bus!Spec
=============================================================================
