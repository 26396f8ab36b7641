----------------------------- MODULE MCJournal -----------------------------
(* Instances of Journal for TLC. *)
EXTENDS Journal, TLC

MCPostingLists ==
  { <<5, -5>>, <<5, -4>>, <<>> }
=============================================================================
