----------------------------- MODULE DedupeLog -----------------------------
(***************************************************************************)
(* What a journal promises its callers: one totally ordered log in which   *)
(* every key occurs at most once.  A call either appends its own entry in  *)
(* one atomic step, or is shown the entry another call appended under its  *)
(* key, or leaves no trace.  Only a call whose answer was lost may or may  *)
(* not have appended.                                                      *)
(***************************************************************************)
EXTENDS Sequences, Naturals

CONSTANTS Calls, Entries

VARIABLES log, wanted, answer

Has(key) == \E n \in DOMAIN log : log[n].dedupe = key

Init ==
  /\ log = <<>>
  /\ wanted \in [Calls -> Entries]
  /\ answer = [c \in Calls |-> "open"]

Answer(c, options) ==
  /\ answer[c] = "open"
  /\ \E a \in options : answer' = [answer EXCEPT ![c] = a]
  /\ UNCHANGED wanted

Record(c) ==
  /\ ~Has(wanted[c].dedupe)
  /\ log' = Append(log, wanted[c])
  /\ Answer(c, {"created", "lost"})

Replay(c) ==
  /\ Has(wanted[c].dedupe)
  /\ Answer(c, {"existing"})
  /\ UNCHANGED log

Decline(c) ==
  /\ Answer(c, {"rejected", "failed", "lost"})
  /\ UNCHANGED log

Next == \E c \in Calls : Record(c) \/ Replay(c) \/ Decline(c)

Spec == Init /\ [][Next]_<<log, wanted, answer>>
=============================================================================
