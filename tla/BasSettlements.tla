--------------------------- MODULE BasSettlements ---------------------------
(***************************************************************************)
(* The two parts that settle a BAS: the gateway's finalise route, which    *)
(* keeps its settlements in memory (Finalise), and the domain policy's     *)
(* instructions in the database (Settlement).  They share no state: each   *)
(* moves as its own module says.                                           *)
(***************************************************************************)
EXTENDS Integers

(* Finalise *)
CONSTANTS Finalisations, FinaliseKeyOf, FinaliseBodyOf, TTL, FinaliseMaxClock, MaxLives

VARIABLES mode, store, settlements, counter, fpc, fclock, life, issued

Finalising ==
  INSTANCE Finalise WITH
    Calls <- Finalisations, KeyOf <- FinaliseKeyOf, BodyOf <- FinaliseBodyOf,
    MaxClock <- FinaliseMaxClock, pc <- fpc, clock <- fclock

(* Settlement *)
CONSTANTS Preparations, OrgOf, PeriodOf, Bank, MaxCents, MaxFaults

VARIABLES
  owed, remitted, trustAccounts, agreements, instructions, mandates, spc, read,
  most, credited, faults, faulted

Settling == INSTANCE Settlement WITH Calls <- Preparations, pc <- spc

ASSUME BasAssumption ==
  /\ TTL \in Nat /\ FinaliseMaxClock \in Nat /\ MaxLives \in Nat
  /\ MaxCents \in Nat /\ MaxFaults \in Nat
-----------------------------------------------------------------------------
finaliseVars == <<mode, store, settlements, counter, fpc, fclock, life, issued>>

settleVars ==
  <<owed, remitted, trustAccounts, agreements, instructions, mandates, spc, read,
    most, credited, faults, faulted>>

(* In the life of a process a key is performed again only after 24 hours,  *)
(* and no settlement replaces another (bas-settlement.ts of the gateway).  *)
FinaliseSound == Finalising!FinaliseSound

(* The finalise route performs a key once until it forgets it.             *)
FinaliseOncePerKey == Finalising!ImplementsOncePerKey

(* An instruction asks for no more than was payable while it was prepared  *)
(* and what the GST fell by between its reads, and every mandate at the    *)
(* bank is accounted for                                                   *)
(* (settlement/bas-settlement.ts of the domain policy).                    *)
SettlementSound == Settling!SettlementSound
=============================================================================
