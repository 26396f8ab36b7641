----------------------------- MODULE Settlement -----------------------------
(***************************************************************************)
(* BAS settlement instructions (packages/domain-policy/src/settlement/     *)
(* bas-settlement.ts): prepareBasSettlementInstruction reads what is owed  *)
(* and what was remitted by separate statements, asks the bank for a       *)
(* mandate where there is a bankApi, and creates instruction, agreement    *)
(* and trust account in one transaction.  Meanwhile rows for the period    *)
(* keep arriving: GST rows of either sign, the calculator adds them up.    *)
(***************************************************************************)
EXTENDS Integers, FiniteSets

CONSTANTS
  Calls,          \* calls of prepareBasSettlementInstruction
  OrgOf, PeriodOf,
  Bank,           \* TRUE: there is a bankApi at run time
  MaxCents,       \* bounds what is owed of each kind for a period, owed back, or
                  \* remitted
  MaxFaults       \* bounds lost connections

Kinds == {"PAYGW", "GST"}
Book(c) == <<OrgOf[c], PeriodOf[c]>>
Books == {Book(c) : c \in Calls}

VARIABLES
  owed,           \* PayrollItem and GstTransaction: cents by book and kind
  remitted,       \* the tax ledger's balance, by book
  trustAccounts,  \* the organisations with an account 000-000 00000000
  agreements,     \* PayToAgreement.mandateRef, unique
  instructions,   \* the SettlementInstruction each call created, by status
  mandates,       \* at the bank: the calls it made a mandate for
  pc,
  read,           \* what a call has read of each kind, and of the ledger
  most,           \* history: the most that was payable since the call began
  credited,       \* history: by how much the GST owed had fallen below what
                  \* the call had read of it, before it read the PAYGW
  faults, faulted \* lost connections, and the calls that met one

tables == <<trustAccounts, agreements, instructions>>
history == <<most, credited>>
vars == <<owed, remitted, tables, mandates, pc, read, history, faults, faulted>>

Nothing == MaxCents + 1         \* read yet: more than there can be
Unread == [PAYGW |-> Nothing, GST |-> Nothing, ledger |-> Nothing]

Init ==
  /\ owed = [b \in Books |-> [PAYGW |-> 0, GST |-> 0]]
  /\ remitted = [b \in Books |-> 0]
  /\ trustAccounts = {} /\ agreements = {} /\ mandates = {} /\ faulted = {}
  /\ instructions = [c \in Calls |-> "none"]
  /\ pc = [c \in Calls |-> "idle"]
  /\ read = [c \in Calls |-> Unread]
  /\ most = [c \in Calls |-> 0] /\ credited = [c \in Calls |-> 0]
  /\ faults = 0

Goto(c, from, to) == pc[c] = from /\ pc' = [pc EXCEPT ![c] = to]

Payable(b) == owed[b]["PAYGW"] + owed[b]["GST"] - remitted[b]

(* rows arrive, what they add up to grows by a cent *)
Arrive(b, k) ==
  /\ owed[b][k] < MaxCents
  /\ owed' = [owed EXCEPT ![b][k] = @ + 1]
  /\ most' = [c \in Calls |->
                IF Book(c) = b /\ pc[c] \in {"reading", "summed"} /\ most[c] <= Payable(b)
                THEN Payable(b) + 1 ELSE most[c]]
  /\ UNCHANGED <<remitted, tables, mandates, pc, read, credited, faults, faulted>>

(* or, of GST, falls by one *)
Between(c) == pc[c] = "reading" /\ read[c]["GST"] # Nothing
Credit(b) ==
  /\ owed[b]["GST"] > -MaxCents
  /\ owed' = [owed EXCEPT ![b]["GST"] = @ - 1]
  /\ credited' = [c \in Calls |->
                    IF Book(c) = b /\ Between(c) /\ read[c]["GST"] - owed[b]["GST"] >= credited[c]
                    THEN read[c]["GST"] - owed[b]["GST"] + 1 ELSE credited[c]]
  /\ UNCHANGED <<remitted, tables, mandates, pc, read, most, faults, faulted>>

Remit(b) ==
  /\ remitted[b] < MaxCents
  /\ remitted' = [remitted EXCEPT ![b] = @ + 1]
  /\ UNCHANGED <<owed, tables, mandates, pc, read, history, faults, faulted>>

Begin(c) ==
  /\ Goto(c, "idle", "reading")
  /\ most' = [most EXCEPT ![c] = Payable(Book(c))]
  /\ UNCHANGED <<owed, remitted, tables, mandates, read, credited, faults, faulted>>

(* computeOrgObligationsForPeriod: two findMany under way at once *)
ReadKind(c, k) ==
  /\ pc[c] = "reading" /\ read[c][k] = Nothing
  /\ read' = [read EXCEPT ![c][k] = owed[Book(c)][k]]
  /\ pc' = [pc EXCEPT ![c] =
              IF \A other \in Kinds \ {k} : read[c][other] # Nothing THEN "summed" ELSE @]
  /\ UNCHANGED <<owed, remitted, tables, mandates, history, faults, faulted>>

(* getLedgerBalanceForPeriod *)
ReadLedgerFirstBug(c) ==
  /\ pc[c] \in {"reading", "summed"}
  /\ pc' = [pc EXCEPT ![c] =
              IF @ = "reading" THEN @ ELSE IF Bank THEN "mandate" ELSE "create"]
  /\ (pc[c] = "summed") = (read[c].ledger # Nothing)
  /\ read' = [read EXCEPT ![c].ledger = IF @ = Nothing THEN remitted[Book(c)] ELSE @]
  /\ UNCHANGED <<owed, remitted, tables, mandates, history, faults, faulted>>
ReadLedger(c) ==
  /\ Goto(c, "summed", IF Bank THEN "mandate" ELSE "create")
  /\ read' = [read EXCEPT ![c].ledger = remitted[Book(c)]]
  /\ UNCHANGED <<owed, remitted, tables, mandates, history, faults, faulted>>

CreateMandate(c) ==
  /\ Goto(c, "mandate", "create")
  /\ mandates' = mandates \cup {c}
  /\ UNCHANGED <<owed, remitted, tables, read, history, faults, faulted>>

(* the bank's reference, or one made of organisation and period *)
MandateRefBug(c) == Book(c)
MandateRef(c) == IF Bank THEN <<c>> ELSE Book(c)

(* both the mandate's reference and the trust account's number are unique *)
Free(c) == OrgOf[c] \notin trustAccounts /\ MandateRef(c) \notin agreements

Create(c) ==
  /\ Free(c)
  /\ Goto(c, "create", "prepared")
  /\ trustAccounts' = trustAccounts \cup {OrgOf[c]}
  /\ agreements' = agreements \cup {MandateRef(c)}
  /\ instructions' = [instructions EXCEPT ![c] = "PREPARED"]
  /\ UNCHANGED <<owed, remitted, mandates, read, history, faults, faulted>>

Violate(c) ==
  /\ ~Free(c)
  /\ Goto(c, "create", "failed")
  /\ UNCHANGED <<owed, remitted, tables, mandates, read, history, faults, faulted>>

(* A statement fails or its answer is lost: the call rejects.              *)
Lose(c) ==
  /\ faults < MaxFaults
  /\ pc[c] \in {"reading", "summed", "mandate", "create"}
  /\ pc' = [pc EXCEPT ![c] = "failed"]
  /\ mandates' \in {mandates} \cup (IF pc[c] = "mandate" THEN {mandates \cup {c}} ELSE {})
  /\ faults' = faults + 1 /\ faulted' = faulted \cup {c}
  /\ UNCHANGED <<owed, remitted, tables, read, history>>

(* markBasSettlementSent, Ack and Failed: whatever the status is *)
MarkMissingBug(c, s) ==
  /\ instructions' = [instructions EXCEPT ![c] = s]
  /\ UNCHANGED <<owed, remitted, trustAccounts, agreements, mandates, pc, read, history,
                 faults, faulted>>
Mark(c, s) ==
  /\ instructions[c] # "none"
  /\ instructions' = [instructions EXCEPT ![c] = s]
  /\ UNCHANGED <<owed, remitted, trustAccounts, agreements, mandates, pc, read, history,
                 faults, faulted>>

Next ==
  \/ \E b \in Books : Remit(b) \/ Credit(b) \/ \E k \in Kinds : Arrive(b, k)
  \/ \E c \in Calls :
       \/ Begin(c) \/ ReadLedger(c) \/ CreateMandate(c)
       \/ Create(c) \/ Violate(c) \/ Lose(c)
       \/ \E k \in Kinds : ReadKind(c, k)
       \/ \E s \in {"SENT", "ACK", "FAILED"} : Mark(c, s)

Spec == Init /\ [][Next]_vars
-----------------------------------------------------------------------------
(* Type invariant; an instruction is there once its call created it. *)
TypeOK ==
  /\ owed \in [Books -> [PAYGW : 0..MaxCents, GST : -MaxCents..MaxCents]]
  /\ remitted \in [Books -> 0..MaxCents]
  /\ trustAccounts \subseteq {OrgOf[c] : c \in Calls}
  /\ agreements \subseteq {MandateRef(c) : c \in Calls}
  /\ instructions \in [Calls -> {"none", "PREPARED", "SENT", "ACK", "FAILED"}]
  /\ pc \in [Calls -> {"idle", "reading", "summed", "mandate", "create",
                      "prepared", "failed"}]
  /\ read \in [Calls -> [PAYGW : Int, GST : Int, ledger : Int]]
  /\ mandates \subseteq Calls /\ faulted \subseteq Calls
  /\ most \in [Calls -> Int] /\ credited \in [Calls -> Nat] /\ faults \in 0..MaxFaults
  /\ \A c \in Calls : instructions[c] # "none" <=> pc[c] = "prepared"

(* Whatever arrives and is remitted between the reads, an instruction asks *)
(* for no more than was payable at one moment while it was prepared, and   *)
(* what the GST fell by after it was read and before the PAYGW was.        *)
NetPayable(c) == read[c]["PAYGW"] + read[c]["GST"] - read[c].ledger
NeverOverstated ==
  \A c \in Calls : pc[c] = "prepared" => NetPayable(c) <= most[c] + credited[c]

(* A mandate made at the bank is recorded on an agreement, or its call is  *)
(* not over or was told an error.                                          *)
MandateAccounted ==
  \A c \in mandates : <<c>> \in agreements \/ pc[c] \in {"create", "failed"}

SettlementSound == TypeOK /\ NeverOverstated /\ MandateAccounted

(* prepareBasSettlementInstruction persists an instruction unless a        *)
(* statement fails (bas-settlement.ts:43-46).                              *)
PreparePersists == \A c \in Calls : pc[c] = "failed" => c \in faulted
=============================================================================
