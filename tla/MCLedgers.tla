----------------------------- MODULE MCLedgers -----------------------------
(***************************************************************************)
(* The two hash chains as scenes of one run: the tax ledger as MCTaxLedger *)
(* instantiates it, and the audit trail with records that are written one  *)
(* after the other or overlap.  Init chooses the scene; the other chain    *)
(* stands still in an initial state.                                       *)
(***************************************************************************)
EXTENDS MCTaxLedger, Trails

CONSTANTS r1, r2, r3

(* the two critical records are alike *)
Alike == Permutations({r1, r2})

VARIABLE scene

all == <<scene, vars, trailVars>>

MCInit ==
  /\ scene \in {"ledger", "trail"}
  /\ Init
  /\ Trail!Init /\ (scene = "ledger" => overlap)

MCNext ==
  /\ UNCHANGED scene
  /\ \/ scene = "ledger" /\ Next /\ UNCHANGED trailVars
     \/ scene = "trail" /\ Trail!Next /\ UNCHANGED vars

MCSpec == MCInit /\ [][MCNext]_all
=============================================================================
