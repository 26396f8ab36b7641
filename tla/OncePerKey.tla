----------------------------- MODULE OncePerKey -----------------------------
(***************************************************************************)
(* What an idempotency key promises: of all the calls made with a key at   *)
(* most one is performed, and every other one is given the performed       *)
(* call's answer, if it asked for the same, or a refusal.  A call may fail *)
(* before or after it is performed.  A keeper that forgets drops keys, and *)
(* with them what is still open, and may then perform a key again.         *)
(***************************************************************************)
CONSTANTS
  Calls,
  KeyOf,          \* the key of each call
  BodyOf,         \* what it asks for
  Forgets         \* TRUE: keys may be dropped

VARIABLES
  owner,          \* the call performed for each key, {} or a singleton
  answer          \* what each call was told

Keys == {KeyOf[c] : c \in Calls}

Init ==
  /\ owner = [k \in Keys |-> {}]
  /\ answer = [c \in Calls |-> "open"]

Perform(c) ==
  /\ answer[c] = "open"
  /\ owner[KeyOf[c]] = {}
  /\ owner' = [owner EXCEPT ![KeyOf[c]] = {c}]
  /\ UNCHANGED answer

Told(c, a) ==
  \/ a = "created" /\ owner[KeyOf[c]] = {c}
  \/ a = "replayed" /\ \E d \in owner[KeyOf[c]] : d # c /\ BodyOf[d] = BodyOf[c]
  \/ a = "refused" /\ owner[KeyOf[c]] # {}
  \/ a = "failed"

Tell(c) ==
  /\ answer[c] = "open"
  /\ \E a \in {"created", "replayed", "refused", "failed"} :
       Told(c, a) /\ answer' = [answer EXCEPT ![c] = a]
  /\ UNCHANGED owner

Forget ==
  /\ Forgets
  /\ \E K \in SUBSET Keys :
       owner' = [k \in Keys |-> IF k \in K THEN {} ELSE owner[k]]
  /\ \E C \in SUBSET {c \in Calls : answer[c] = "open"} :
       answer' = [c \in Calls |-> IF c \in C THEN "failed" ELSE answer[c]]

Next == Forget \/ \E c \in Calls : Perform(c) \/ Tell(c)

Spec == Init /\ [][Next]_<<owner, answer>>
=============================================================================
