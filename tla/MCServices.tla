----------------------------- MODULE MCServices -----------------------------
(***************************************************************************)
(* The journal and the services that work on their own, as scenes of one   *)
(* run with their fairness: Init chooses a scene, its component moves as   *)
(* its own module says, and all others stand still in an initial state.    *)
(***************************************************************************)
EXTENDS MCJournal, Services

VARIABLE scene

(* Jobs: three for two slots or one, of which one may get stuck for ever,  *)
(* with one crash of the gateway.  Events: one that is never handled and   *)
(* two others, two members of the group, two faults.  Regulations: a page  *)
(* that cannot be fetched before one that can and changes twice, two       *)
(* faults.                                                                 *)
CONSTANTS j1, j2, j3, m1, m2, m3, p1, p2

MCTargets == <<"dead", "live">>

HandledEventually == Bus!HandledEventually
-----------------------------------------------------------------------------
all == <<scene, vars, jobVars, busVars, watchVars>>

JournalAnswers == scene = "journal" => EveryCallAnswered
JobsEnd == scene = "jobs" => Working!JobsEnd
CatchesUp == scene = "watch" => Watch!CatchesUp

MCInit ==
  /\ scene \in {"journal", "jobs", "bus", "watch"}
  /\ Init
  /\ Working!Init
  /\ Bus!Init
  /\ Watch!Init
  /\ scene # "journal" =>
       \A c \in Calls : input[c] = CHOOSE i \in Inputs : TRUE
  /\ scene # "jobs" => limit = 1
  /\ scene # "watch" => page = [n \in {"dead", "live"} |-> "a"]

On(s) ==
  /\ scene = s /\ UNCHANGED scene
  /\ IF s = "journal" THEN TRUE ELSE UNCHANGED vars
  /\ IF s = "jobs" THEN TRUE ELSE UNCHANGED jobVars
  /\ IF s = "bus" THEN TRUE ELSE UNCHANGED busVars
  /\ IF s = "watch" THEN TRUE ELSE UNCHANGED watchVars

MCNext ==
  \/ On("journal") /\ Next
  \/ On("jobs") /\ Working!Next
  \/ On("bus") /\ Bus!Next
  \/ On("watch") /\ Watch!Next

(* the fairness of each module, in its scene *)
MCFairness ==
  /\ \A c \in Calls : WF_all(On("journal") /\ Step(c))
  /\ \A j \in Jobs : WF_all(On("jobs") /\ Working!Proceed(j))
  /\ \A m \in Msgs : WF_all(On("bus") /\ Bus!Serve(m))
  /\ \A p \in Members : WF_all(On("bus") /\ Bus!Receive(p))
  /\ WF_all(On("watch") /\ Watch!Sweep)

MCSpec == MCInit /\ [][MCNext]_all /\ MCFairness
=============================================================================
