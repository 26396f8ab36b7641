------------------------------- MODULE MCLive -------------------------------
(***************************************************************************)
(* The liveness instances.  Components that share no state are scenes of   *)
(* one run: Init chooses a scene, its component moves as its own module    *)
(* says, and all others stand still in an initial state.                   *)
(***************************************************************************)
EXTENDS Obligations, TLC

CONSTANTS e1

(* Lodging, Obligations itself: a GST event below its expected amount and  *)
(* two overlapping lodgments.                                              *)
MCTaxOf == e1 :> "GST"
MCAmountOf == e1 :> 1
MCExpectedOf == e1 :> 2

(* Nightly: s1 is a payroll submission, s2 a POS transaction; the nightly  *)
(* job may die once.  The repository as it is; with applyTransfer and the  *)
(* column, where the logger throws; and with no logger.                    *)
CONSTANTS s1, s2, w1

VARIABLES
  deployment, entries, rows, appliedBy, holding, moved, shortfalls, locked,
  npc, todo, origin, current, checking, certified, crashes, raced, stray, unmarked

Nightly ==
  INSTANCE DesignatedAccounts WITH
    Submissions <- {s1, s2}, Captures <- {}, Debits <- {}, Workers <- {w1},
    KeyOf <- (s1 :> "k1") @@ (s2 :> "k2"),
    AccountOf <- (s1 :> "PAYGW_BUFFER") @@ (s2 :> "GST_BUFFER"),
    AmountOf <- (s1 :> 1) @@ (s2 :> 2),
    MaxWrite <- 2, Required <- [a \in {"PAYGW_BUFFER", "GST_BUFFER"} |-> 1],
    Deployments <-
      {[transfer |-> FALSE, logger |-> "function", actor |-> FALSE],
       [transfer |-> TRUE, logger |-> "function", actor |-> TRUE],
       [transfer |-> TRUE, logger |-> "absent", actor |-> TRUE]},
    MaxRepeats <- 2, MaxCrashes <- 1,
    pc <- npc, balance <- holding, alerts <- shortfalls

nightlyVars ==
  <<deployment, entries, rows, appliedBy, holding, moved, shortfalls, locked,
    npc, todo, origin, current, checking, certified, crashes, raced, stray, unmarked>>

(* Writing: two writers and the client of the unit tests, in whose       *)
(* transactions a failed statement does not abort.                         *)
CONSTANTS c1, c2, d1, d2

VARIABLES journal, jpc, input, last

Writing ==
  INSTANCE Journal WITH
    Calls <- {c1, c2}, DedupeIds <- {d1, d2},
    PostingLists <- {<<5, -5>>, <<5, -4>>}, ErrorAborts <- FALSE, pc <- jpc

writingVars == <<journal, jpc, input, last>>

RetryReturnsExisting == Writing!RetryReturnsExisting
-----------------------------------------------------------------------------
VARIABLE scene

(* a shortfall is found by the nightly job, in its scene *)
ShortfallAlerted == scene = "nightly" => Nightly!ShortfallAlerted

all == <<scene, vars, nightlyVars, writingVars>>

MCInit ==
  /\ scene \in {"lodging", "nightly", "writing"}
  /\ Init
  /\ Nightly!Init
  /\ Writing!Init
  /\ scene # "writing" =>
       \A c \in {c1, c2} : input[c] = [dedupe |-> d1, postings |-> <<5, -5>>]

On(s) ==
  /\ scene = s /\ UNCHANGED scene
  /\ IF s = "lodging" THEN TRUE ELSE UNCHANGED vars
  /\ IF s = "nightly" THEN TRUE ELSE UNCHANGED nightlyVars
  /\ IF s = "writing" THEN TRUE ELSE UNCHANGED writingVars

MCNext ==
  \/ On("lodging") /\ Next
  \/ On("nightly") /\ Nightly!Next
  \/ On("writing") /\ Writing!Next

(* the fairness of each module, in its scene *)
MCFairness ==
  /\ \A e \in Events : WF_all(On("lodging") /\ EventStep(e))
  /\ \A l \in Lodgments : WF_all(On("lodging") /\ LodgmentStep(l))
  /\ \A s \in {s1, s2} : WF_all(On("nightly") /\ Nightly!SubmissionStep(s))
  /\ WF_all(On("nightly") /\ Nightly!WorkerStep(w1))
  /\ \A c \in {c1, c2} : WF_all(On("writing") /\ Writing!Step(c))

MCSpec == MCInit /\ [][MCNext]_all /\ MCFairness
=============================================================================
