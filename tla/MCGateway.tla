----------------------------- MODULE MCGateway -----------------------------
(***************************************************************************)
(* Instances around the gateway's requests and the domain policy, as       *)
(* scenes of one run: Init chooses a scene, its component moves as its own *)
(* module says, and all others stand still in an initial state.            *)
(***************************************************************************)
EXTENDS Gateway, BasSettlements, Reckoning, TLC

(* Requests, Gateway itself: three bank lines with one key, of which one   *)
(* asks for another amount, and three sends of one transfer.               *)
CONSTANTS n1, n2, n3, t1, t2, t3

MCKeyOf ==
  (n1 :> "k1") @@ (n2 :> "k1") @@ (n3 :> "k1") @@
  (t1 :> "k1") @@ (t2 :> "k2") @@ (t3 :> "k2")
MCBodyOf ==
  (n1 :> "5") @@ (n2 :> "5") @@ (n3 :> "7") @@
  (t1 :> "i1") @@ (t2 :> "i1") @@ (t3 :> "i1")

(* Finalise: three requests with one key, one of them for another quarter, *)
(* and one with a key of its own; keys live for a tick, a restart happens. *)
CONSTANTS f1, f2, f3, f4

MCFinaliseKeyOf == (f1 :> "k1") @@ (f2 :> "k1") @@ (f3 :> "k1") @@ (f4 :> "k2")
MCFinaliseBodyOf == (f1 :> "Q1") @@ (f2 :> "Q1") @@ (f3 :> "Q2") @@ (f4 :> "Q1")

(* Settling: two instructions for one period are prepared at once.         *)
CONSTANTS p1, p2

MCOrgOf == (p1 :> "o") @@ (p2 :> "o")
MCPeriodOf == (p1 :> "Q1") @@ (p2 :> "Q1")
Alike == Permutations({p1, p2})

(* Reckoning: a table with two thresholds, refunds among the sales, the    *)
(* turn of the year, a leap year, and the days around Easter 2024.         *)
MCBrackets ==
  << [threshold |-> 0, base |-> 0, rate |-> 0],
     [threshold |-> 200, base |-> 0, rate |-> 190],
     [threshold |-> 1000, base |-> 152, rate |-> 325] >>
MCPays == {-1} \cup 0..120 \cup {200, 300, 999, 1000, 1001, 1500}
Sold == [cents : {-15, -5, 5, 9, 25}, taxable : BOOLEAN]
MCSales == {<<a>> : a \in Sold} \cup {<<a, b>> : a, b \in Sold}
MCPeriodEnds == [year : {2023, 2024}, month : {0, 1, 2, 5, 8, 11}]
MCRules == [day : {0, 21, 28, 31}, offset : {1, 2}]
-----------------------------------------------------------------------------
VARIABLE scene

all == <<scene, vars, finaliseVars, settleVars, ask, answer>>

MCInit ==
  /\ scene \in {"requests", "finalising", "settling", "reckoning"}
  /\ Init
  /\ Finalising!Init
  /\ Settling!Init
  /\ IF scene = "reckoning" THEN ReckoningInit
     ELSE ask = [of |-> "nothing"] /\ answer = <<>>

On(s) ==
  /\ scene = s /\ UNCHANGED scene
  /\ IF s = "requests" THEN TRUE ELSE UNCHANGED vars
  /\ IF s = "finalising" THEN TRUE ELSE UNCHANGED finaliseVars
  /\ IF s = "settling" THEN TRUE ELSE UNCHANGED settleVars
  /\ IF s = "reckoning" THEN TRUE ELSE UNCHANGED <<ask, answer>>

MCNext ==
  \/ On("requests") /\ Next
  \/ On("finalising") /\ Finalising!Next
  \/ On("settling") /\ Settling!Next
  \/ On("reckoning") /\ Calculate

MCSpec == MCInit /\ [][MCNext]_all
=============================================================================
