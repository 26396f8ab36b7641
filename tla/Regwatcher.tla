----------------------------- MODULE Regwatcher -----------------------------
(***************************************************************************)
(* The regulation watcher (packages/regwatcher/src/run-once.ts with        *)
(* lib/http.ts and lib/store.ts): a sweep fetches every target in turn,    *)
(* compares the hash of its text with the last snapshot, and on a change   *)
(* writes a snapshot and appends an event to changes.ndjson.  cron starts  *)
(* the next sweep.  The process may die between any two file operations.   *)
(***************************************************************************)
EXTENDS Integers, Sequences, FiniteSets

CONSTANTS
  Targets,        \* the sequence TARGETS
  Versions,       \* hashes of the texts a page may have
  Dead,           \* targets that cannot be fetched
  Attempts,       \* attempts of fetchSanitizedHtml
  MaxEdits,       \* bounds the changes of the pages
  MaxFaults       \* bounds failed requests of live pages, crashes, full disks

VARIABLES
  page,           \* the text each page has
  snapshots,      \* the meta files of each target, oldest first, a hash or,
                  \* if the file is cut off, "torn"
  events,         \* change events of each target: hashPrev and hashNew
  pc, at,         \* where the sweep is, and at which target
  tries,          \* requests made for it
  fetched, last,  \* hash, and hash of the last snapshot
  edits, faults

sweep == <<pc, at, tries, fetched, last>>
vars == <<page, snapshots, events, sweep, edits, faults>>

Names == {Targets[i] : i \in DOMAIN Targets}
None == "none"
Target == Targets[at]

Init ==
  /\ page \in [Names -> Versions]
  /\ snapshots = [n \in Names |-> <<>>] /\ events = [n \in Names |-> <<>>]
  /\ pc = "fetch" /\ at = 1 /\ tries = 0 /\ fetched = None /\ last = None
  /\ edits = 0 /\ faults = 0

Goto(from, to) == pc = from /\ pc' = to

Edit(n) ==
  /\ edits < MaxEdits
  /\ edits' = edits + 1
  /\ \E v \in Versions \ {page[n]} : page' = [page EXCEPT ![n] = v]
  /\ UNCHANGED <<snapshots, events, sweep, faults>>

(* fetchSanitizedHtml: an attempt fails, or gives the text and its hash *)
FetchOk ==
  /\ Target \notin Dead
  /\ Goto("fetch", "compare")
  /\ fetched' = page[Target]
  /\ UNCHANGED <<page, snapshots, events, at, tries, last, edits, faults>>

FetchFails ==
  /\ Target \in Dead \/ faults < MaxFaults
  /\ Goto("fetch", IF tries + 1 = Attempts THEN "error" ELSE "fetch")
  /\ tries' = tries + 1
  /\ faults' = IF Target \in Dead THEN faults ELSE faults + 1
  /\ UNCHANGED <<page, snapshots, events, at, fetched, last, edits>>

(* getLastSnapshot: the newest meta file; one that does not parse is none *)
Readable(h) == IF h = "torn" THEN None ELSE h
LastSnapshotFirstBug(n) ==
  IF snapshots[n] = <<>> THEN None ELSE Readable(Head(snapshots[n]))
LastSnapshot(n) ==
  IF snapshots[n] = <<>> THEN None ELSE Readable(snapshots[n][Len(snapshots[n])])

(* unchanged: a heartbeat file beside the snapshots, which is not one *)
Compare ==
  /\ Goto("compare", IF LastSnapshot(Target) = fetched THEN "next" ELSE "write")
  /\ last' = LastSnapshot(Target)
  /\ UNCHANGED <<page, snapshots, events, at, tries, fetched, edits, faults>>

(* writeSnapshot: html, text and diff, and the meta file at the end, which *)
(* makes it the last snapshot                                              *)
WriteSnapshot ==
  /\ Goto("write", "report")
  /\ snapshots' = [snapshots EXCEPT ![Target] = Append(@, fetched)]
  /\ UNCHANGED <<page, events, at, tries, fetched, last, edits, faults>>

(* recordChangeEvent: a line is appended, whole or not at all *)
Change(prev) == [prev |-> prev, new |-> fetched]
Report ==
  /\ Goto("report", "next")
  /\ events' = [events EXCEPT ![Target] = Append(@, Change(last))]
  /\ UNCHANGED <<page, snapshots, at, tries, fetched, last, edits, faults>>

(* A meta file that was being written may be cut off. *)
CutOff ==
  {snapshots} \cup
    (IF pc = "write" THEN {[snapshots EXCEPT ![Target] = Append(@, "torn")]} ELSE {})

(* the disk is full: the catch block appends an error event instead *)
DiskFails ==
  /\ pc \in {"compare", "write", "report"} /\ faults < MaxFaults
  /\ pc' = "error"
  /\ faults' = faults + 1
  /\ snapshots' \in CutOff
  /\ UNCHANGED <<page, events, at, tries, fetched, last, edits>>

(* An error event, which nobody compares.  If it fails too, the sweep ends *)
(* before the targets that follow.                                         *)
ReportErrorStopsBug ==
  /\ Goto("error", "over")
  /\ UNCHANGED <<page, snapshots, events, at, tries, fetched, last, edits, faults>>
ReportError ==
  /\ \/ Goto("error", "next") /\ UNCHANGED faults
     \/ Goto("error", "over") /\ faults < MaxFaults /\ faults' = faults + 1
  /\ UNCHANGED <<page, snapshots, events, at, tries, fetched, last, edits>>

(* the next target, or the end of the sweep *)
Clear == tries' = 0 /\ fetched' = None /\ last' = None

NextTarget ==
  /\ Goto("next", IF at = Len(Targets) THEN "over" ELSE "fetch")
  /\ at' = IF at = Len(Targets) THEN 1 ELSE at + 1
  /\ Clear
  /\ UNCHANGED <<page, snapshots, events, edits, faults>>

NextSweep ==
  /\ Goto("over", "fetch")
  /\ at' = 1 /\ Clear
  /\ UNCHANGED <<page, snapshots, events, edits, faults>>

(* the process dies *)
Crash ==
  /\ faults < MaxFaults /\ pc # "over"
  /\ faults' = faults + 1
  /\ pc' = "over"
  /\ snapshots' \in CutOff
  /\ UNCHANGED <<page, events, at, tries, fetched, last, edits>>

Sweep ==
  \/ FetchOk \/ Compare \/ WriteSnapshot \/ Report \/ ReportError
  \/ NextTarget \/ NextSweep \/ (Target \in Dead /\ FetchFails)

Next ==
  \/ Sweep \/ FetchFails \/ DiskFails \/ Crash
  \/ \E n \in Names : Edit(n)

Spec == Init /\ [][Next]_vars

(* the sweep goes on, cron starts the next one, and requests are answered  *)
FairSpec == Spec /\ WF_vars(Sweep)
-----------------------------------------------------------------------------
Hashes == Versions \cup {None}

(* Type invariant. *)
TypeOK ==
  /\ page \in [Names -> Versions]
  /\ snapshots \in [Names -> Seq(Versions \cup {"torn"})]
  /\ events \in [Names -> Seq([prev : Hashes, new : Versions])]
  /\ pc \in {"fetch", "compare", "write", "report", "error", "next", "over"}
  /\ at \in DOMAIN Targets /\ tries \in 0..Attempts
  /\ fetched \in Hashes /\ last \in Hashes
  /\ edits \in 0..MaxEdits /\ faults \in 0..MaxFaults

(* Each event starts where the one before it ended; every exception is paid*)
(* for by a fault: a change whose event was lost shows as a gap in the log.*)
GapsOf(n) ==
  {i \in 2..Len(events[n]) : events[n][i].prev # events[n][i - 1].new}
Gaps == UNION {{<<n, i>> : i \in GapsOf(n)} : n \in Names}
GapsExplained == Cardinality(Gaps) <= faults

LogSound == TypeOK /\ GapsExplained

(* A fault loses an event, never a change: once a page stays the same, the *)
(* last snapshot becomes and stays what it says.  Pages that cannot be     *)
(* fetched keep no other page from being watched.                          *)
CatchesUp ==
  \A n \in Names \ Dead : \A v \in Versions :
    <>[](page[n] = v) => <>[](LastSnapshot(n) = v)
=============================================================================
