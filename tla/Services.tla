------------------------------ MODULE Services ------------------------------
(***************************************************************************)
(* The services that work on their own beside the request handlers: admin  *)
(* jobs in the gateway, consumer groups of the event bus and the           *)
(* regulation watcher.  They share no state: each moves as its own module  *)
(* says.                                                                   *)
(***************************************************************************)
EXTENDS Integers, Sequences

(* AdminJobs *)
CONSTANTS Jobs, Limits, Stuck, MaxCrashes

VARIABLES limit, runs, queue, active, status, jpc, child, killedByTimeout, crashes

Working == INSTANCE AdminJobs WITH pc <- jpc

(* EventBus *)
CONSTANTS Msgs, Poison, Members, MaxBusFaults

VARIABLES stream, due, inbox, handled, effects, faults

Bus == INSTANCE EventBus WITH MaxFaults <- MaxBusFaults

(* Regwatcher *)
CONSTANTS Targets, Versions, Dead, Attempts, MaxEdits, MaxTroubles

VARIABLES page, snapshots, events, wpc, at, tries, fetched, previous, edits, troubles

Watch ==
  INSTANCE Regwatcher WITH
    pc <- wpc, last <- previous, faults <- troubles, MaxFaults <- MaxTroubles

ASSUME ServicesAssumption ==
  /\ Limits \subseteq Nat \ {0} /\ MaxCrashes \in Nat
  /\ Poison \subseteq Msgs /\ MaxBusFaults \in Nat
  /\ Targets \in Seq({Targets[i] : i \in DOMAIN Targets}) /\ Targets # <<>>
  /\ "none" \notin Versions /\ "torn" \notin Versions
  /\ Attempts \in Nat \ {0} /\ MaxEdits \in Nat /\ MaxTroubles \in Nat
-----------------------------------------------------------------------------
jobVars == <<limit, runs, queue, active, status, jpc, child, killedByTimeout, crashes>>
busVars == <<stream, due, inbox, handled, effects, faults>>
watchVars ==
  <<page, snapshots, events, wpc, at, tries, fetched, previous, edits, troubles>>

(* No slot leaks or is given twice, no job waits beside a free one, jobs   *)
(* start in order and a timeout is never told as success                   *)
(* (adminJobService.ts:214-225).                                           *)
SlotsSound == Working!SlotsSound

(* Each repetition of an event's effect is paid for by a fault             *)
(* (nats-bus.ts:72-82).                                                    *)
DeliverySound == Bus!DeliverySound

(* Each gap in the log of changes is paid for by a fault (run-once.ts).    *)
LogSound == Watch!LogSound
=============================================================================
