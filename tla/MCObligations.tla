--------------------------- MODULE MCObligations ---------------------------
(* Instances of Obligations for TLC.  Two PAYGW events; or a single GST    *)
(* event below its expected amount.                                        *)
EXTENDS Obligations, TLC

CONSTANTS e1, e2, l1, l2

MCTaxOf == (e1 :> "PAYGW") @@ (e2 :> "PAYGW")
MCAmountOf == (e1 :> 1) @@ (e2 :> 2)
MCExpectedOf == (e1 :> 0) @@ (e2 :> 0)

Alike == Permutations({l1, l2})
(* at most three handlers are under way at once *)
AtOnce == Cardinality({h \in Handlers : pc[h] \notin Over}) <= 3

MCOneTaxOf == e1 :> "GST"
MCOneAmountOf == e1 :> 1
MCOneExpectedOf == e1 :> 2
=============================================================================
