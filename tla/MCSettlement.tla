---------------------------- MODULE MCSettlement ----------------------------
(* Instances of Settlement for TLC: one organisation, two quarters, and no *)
(* bankApi: each mandate's reference is made of organisation and period.   *)
EXTENDS Settlement, TLC

CONSTANTS p1, p2

MCOrgOf == (p1 :> "o") @@ (p2 :> "o")
MCPeriodOf == (p1 :> "Q1") @@ (p2 :> "Q2")
=============================================================================
