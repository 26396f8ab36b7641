------------------------------- MODULE Trails -------------------------------
(***************************************************************************)
(* The audit trail on its own: calls of recordAuditLog by any handlers,    *)
(* which overlap or not (the transfer route within Gateway writes to one,  *)
(* too).                                                                   *)
(***************************************************************************)
EXTENDS Integers, Sequences

CONSTANTS Records, Critical, MaxAuditClock

VARIABLES trail, phase, saw, since, auditClock, overlap

Trail ==
  INSTANCE AuditTrail WITH clock <- auditClock, MaxClock <- MaxAuditClock

ASSUME TrailsAssumption == MaxAuditClock \in Nat /\ Critical \subseteq Records
-----------------------------------------------------------------------------
trailVars == <<trail, phase, saw, since, auditClock, overlap>>

(* Each record continues one that exists, records that do not overlap form *)
(* one chain, and no critical one is missing (lib/audit.ts:24-60).         *)
TrailSound == Trail!TrailSound
=============================================================================
