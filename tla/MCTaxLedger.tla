---------------------------- MODULE MCTaxLedger ----------------------------
(* Instances of TaxLedger for TLC: three PAYGW entries and a GST debit.    *)
EXTENDS TaxLedger, TLC

CONSTANTS a1, a2, a3, a4

MCCategoryOf == (a1 :> "PAYGW") @@ (a2 :> "PAYGW") @@ (a3 :> "PAYGW") @@ (a4 :> "GST")
MCCentsOf == (a1 :> 5) @@ (a2 :> 7) @@ (a3 :> -5) @@ (a4 :> -5)
=============================================================================
