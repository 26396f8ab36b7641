----------------------------- MODULE AuditTrail -----------------------------
(***************************************************************************)
(* The gateway's audit trail of one organisation (services/api-gateway/    *)
(* src/lib/audit.ts): each record is chained by hash to the newest one, by *)
(* createdAt.  The newest record is read and the next one inserted by two  *)
(* statements outside any transaction, and nothing is unique.              *)
(***************************************************************************)
EXTENDS Integers, Sequences

CONSTANTS
  Records,        \* calls of recordAuditLog
  Critical,       \* those of recordCriticalAuditLog, which throw on an error
  MaxClock        \* bounds the clock, in milliseconds

VARIABLES
  trail,          \* the rows of AuditLog
  phase,          \* where each call is
  saw,            \* the hash of the record it found, <<>> for null
  since,          \* when it found it
  clock,
  overlap         \* FALSE: in this behaviour records are written one after
                  \* the other, in different milliseconds

auditVars == <<trail, phase, saw, since, clock, overlap>>

(* sha256 taken as injective: a hash is the sequence of the records chained *)
Hash(prev, r) == Append(prev, r)

Newest(row) == \A other \in trail : other.at <= row.at

Init ==
  /\ trail = {} /\ clock = 0 /\ overlap \in BOOLEAN
  /\ phase = [r \in Records |-> "idle"]
  /\ saw = [r \in Records |-> <<>>]
  /\ since = [r \in Records |-> 0]

Enter(r, from, to) == phase[r] = from /\ phase' = [phase EXCEPT ![r] = to]

Tick ==
  /\ clock < MaxClock
  /\ clock' = clock + 1
  /\ UNCHANGED <<trail, phase, saw, since>>

(* findFirst ... orderBy createdAt desc: of several newest any one *)
FindFirstNoneBug(r) ==
  /\ overlap \/ \A other \in Records : phase[other] # "found"
  /\ Enter(r, "idle", "found")
  /\ since' = [since EXCEPT ![r] = clock]
  /\ UNCHANGED <<trail, saw, clock>>
FindFirst(r) ==
  /\ overlap \/ \A other \in Records : phase[other] # "found"
  /\ Enter(r, "idle", "found")
  /\ \/ trail = {} /\ UNCHANGED saw
     \/ \E row \in trail : Newest(row) /\ saw' = [saw EXCEPT ![r] = row.hash]
  /\ since' = [since EXCEPT ![r] = clock]
  /\ UNCHANGED <<trail, clock>>

(* createdAt is the process's clock, taken between the two statements.     *)
(* The insert's answer may be lost.                                        *)
Row(r, at) == [by |-> r, at |-> at, prev |-> saw[r], hash |-> Hash(saw[r], r)]

OnErrorBug(r) == "ok"
OnError(r) == IF r \in Critical THEN "failed" ELSE "ok"

CreateEarlyBug(r, to) ==
  /\ Enter(r, "found", to)
  /\ \E at \in 0..since[r] : trail' = trail \cup {Row(r, at)}
  /\ UNCHANGED <<saw, since, clock>>
Create(r, to) ==
  /\ Enter(r, "found", to)
  /\ \E at \in since[r]..clock :
       /\ overlap \/ \A row \in trail : row.at # at
       /\ trail' = trail \cup {Row(r, at)}
  /\ UNCHANGED <<saw, since, clock>>

(* A statement fails: the error is thrown on, or swallowed with a warning. *)
Fail(r) ==
  /\ phase[r] \in {"idle", "found"}
  /\ phase' = [phase EXCEPT ![r] = OnError(r)]
  /\ UNCHANGED <<trail, saw, since, clock>>

Write(r) == FindFirst(r) \/ Create(r, "ok") \/ Create(r, OnError(r)) \/ Fail(r)

Next == (Tick \/ \E r \in Records : Write(r)) /\ UNCHANGED overlap

Spec == Init /\ [][Next]_auditVars
-----------------------------------------------------------------------------
Rows == [by : Records, at : 0..MaxClock, prev : Seq(Records), hash : Seq(Records)]

(* Type invariant. *)
TypeOK ==
  /\ trail \subseteq Rows /\ clock \in 0..MaxClock /\ overlap \in BOOLEAN
  /\ phase \in [Records -> {"idle", "found", "ok", "failed"}]
  /\ saw \in [Records -> Seq(Records)] /\ since \in [Records -> 0..MaxClock]

(* However records overlap, each is chained to a record that exists and is *)
(* no younger: a fork loses the order, never the ancestry.                 *)
Rooted ==
  \A row \in trail :
    \/ row.prev = <<>>
    \/ \E p \in trail : p # row /\ p.hash = row.prev /\ p.at <= row.at

(* Records that neither overlap nor share a millisecond form one chain in  *)
(* the order of createdAt and none is left out of it, although nothing but *)
(* createdAt orders them.                                                  *)
Before(row) == {other \in trail : other.at < row.at}
InLine ==
  /\ \A row, other \in trail : row.at = other.at => row = other
  /\ \A row \in trail :
       \/ Before(row) = {} /\ row.prev = <<>>
       \/ \E p \in Before(row) : Before(p) \cup {p} = Before(row) /\ p.hash = row.prev

Chained == Rooted /\ (~overlap => InLine)

(* A critical record that was reported written is in the trail; one that   *)
(* is not critical may be missing although its caller was told nothing.    *)
CriticalRecorded ==
  \A r \in Critical : phase[r] = "ok" => \E row \in trail : row.by = r

TrailSound == TypeOK /\ Chained /\ CriticalRecorded
=============================================================================
