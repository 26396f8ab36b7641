------------------------- MODULE MCDesignatedCasts -------------------------
(***************************************************************************)
(* DesignatedAccounts with a few of its actors at a time: in each initial  *)
(* state a cast is chosen, and the others stay idle for good.              *)
(***************************************************************************)
EXTENDS MCDesignatedAccounts

(* The actors that ever move: two workers over one contribution; one over  *)
(* a payroll contribution and a debit attempt; one over a resubmitted      *)
(* payroll contribution and a POS transaction; one over a payroll          *)
(* contribution and a credit.                                              *)
Casts ==
  {{s1, w1, w2}} \cup
  UNION {{{s1, d1, w}, {s1, s2, s3, w}, {s1, c1, w}} : w \in {w1, w2}}

VARIABLE cast

MCInit == Init /\ cast \in Casts
MCNext ==
  /\ \/ \E s \in Submissions \cap cast : SubmissionStep(s)
     \/ \E c \in Captures \cap cast : CaptureStep(c)
     \/ \E w \in Workers \cap cast : WorkerStep(w)
     \/ \E h \in Actors : Crash(h)
  /\ UNCHANGED cast
MCSpec == MCInit /\ [][MCNext]_<<vars, cast>>

(* the workers run the same job *)
Symmetry == Permutations({w1, w2})
=============================================================================
