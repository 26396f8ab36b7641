------------------------ MODULE MCDesignatedAccounts ------------------------
(***************************************************************************)
(* Instances of DesignatedAccounts for TLC: s1 and s2 are the same payroll *)
(* submission sent twice, s3 is a POS transaction; c1 is a provider's      *)
(* credit, d1 one of its debit attempts; w1 and w2 run the nightly job.    *)
(***************************************************************************)
EXTENDS DesignatedAccounts, TLC

CONSTANTS s1, s2, s3, c1, d1, w1, w2

MCKeyOf == (s1 :> "k1") @@ (s2 :> "k1") @@ (s3 :> "k2")
MCAccountOf ==
  (s1 :> "PAYGW_BUFFER") @@ (s2 :> "PAYGW_BUFFER") @@ (s3 :> "GST_BUFFER")
  @@ (c1 :> "PAYGW_BUFFER") @@ (d1 :> "PAYGW_BUFFER")
MCAmountOf == (s1 :> 2) @@ (s2 :> 2) @@ (s3 :> 1) @@ (c1 :> 1) @@ (d1 :> 1)

(* the payroll contribution covers its account, and a debit attempt or an  *)
(* overlapping credit can take the cover away                              *)
MCRequired == ("PAYGW_BUFFER" :> 2) @@ ("GST_BUFFER" :> 0)
MCNothingRequired == [a \in Accounts |-> 0]
MCNoKeys == [s \in {} |-> 0]

(* The repository as it is; with applyTransfer passed; with the column as  *)
(* well; and, under both clients, with no audit logger or one that has a   *)
(* log (the two differ in nothing here).                                   *)
Wired(t, l, a) == [transfer |-> t, logger |-> l, actor |-> a]
AsWritten == {Wired(FALSE, "function", FALSE)}
MCDeployments ==
  AsWritten \cup {Wired(TRUE, "function", FALSE), Wired(TRUE, "function", TRUE),
                  Wired(TRUE, "absent", FALSE), Wired(TRUE, "object", TRUE)}
=============================================================================
