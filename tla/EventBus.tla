------------------------------ MODULE EventBus ------------------------------
(***************************************************************************)
(* Delivery of events to one durable consumer group of NATS JetStream, as  *)
(* shared/src/messaging/nats-bus.ts uses it: explicit acknowledgement, one *)
(* message after the other in each process, negative acknowledgement when  *)
(* the handler fails, no limit on deliveries.  The server hands a message  *)
(* to one member of the group and, unless it is acknowledged in time,      *)
(* again to any.                                                           *)
(***************************************************************************)
EXTENDS Integers, Sequences, FiniteSets

CONSTANTS
  Msgs,           \* events
  Poison,         \* those that never decode, or whose handler always fails
  Members,        \* processes subscribed with the durable name
  MaxFaults       \* bounds crashes, lost acknowledgements, failures of a
                  \* handler that may succeed later, and late deliveries

VARIABLES
  stream,         \* messages published and not acknowledged by the group
  due,            \* those the server will deliver
  inbox,          \* delivered to a member, the first one is being handled
  handled,        \* the first one's handler has run
  effects,        \* history: how often the handler of a message succeeded
  faults

vars == <<stream, due, inbox, handled, effects, faults>>

Published(m) == m \in stream \/ effects[m] > 0

Init ==
  /\ stream = {} /\ due = {} /\ handled = {} /\ faults = 0
  /\ inbox = [p \in Members |-> <<>>]
  /\ effects = [m \in Msgs |-> 0]

InSomeInbox(m) == \E p \in Members : \E i \in DOMAIN inbox[p] : inbox[p][i] = m

(* publish resolves when the stream has stored the message *)
Publish(m) ==
  /\ ~Published(m)
  /\ stream' = stream \cup {m}
  /\ due' = due \cup {m}
  /\ UNCHANGED <<inbox, handled, effects, faults>>

Deliver(m, p) ==
  /\ m \in due
  /\ due' = due \ {m}
  /\ inbox' = [inbox EXCEPT ![p] = Append(@, m)]
  /\ UNCHANGED <<stream, handled, effects, faults>>

Next1(p) == inbox[p] # <<>> /\ p \notin handled
Done(p) == inbox' = [inbox EXCEPT ![p] = Tail(@)]

Handle(p) ==
  /\ Next1(p) /\ Head(inbox[p]) \notin Poison
  /\ handled' = handled \cup {p}
  /\ effects' = [effects EXCEPT ![Head(inbox[p])] = @ + 1]
  /\ UNCHANGED <<stream, due, inbox, faults>>

(* ack is sent and not confirmed: it may be lost with the connection *)
AckForgottenBug(p) ==
  /\ p \in handled
  /\ handled' = handled \ {p} /\ Done(p)
  /\ UNCHANGED <<stream, due, effects, faults>>
Ack(p) ==
  /\ p \in handled
  /\ stream' = stream \ {Head(inbox[p])}
  /\ due' = due \ {Head(inbox[p])}
  /\ handled' = handled \ {p} /\ Done(p)
  /\ UNCHANGED <<effects, faults>>

LoseAck(p) ==
  /\ p \in handled /\ faults < MaxFaults
  /\ faults' = faults + 1
  /\ handled' = handled \ {p} /\ Done(p)
  /\ UNCHANGED <<stream, due, effects>>

(* the handler rejects: nak, and the loop goes on with the next message *)
Again(m) == IF m \in stream THEN due \cup {m} ELSE due

FailKeptBug(p) ==
  /\ Next1(p)
  /\ Head(inbox[p]) \in Poison \/ faults < MaxFaults
  /\ faults' = IF Head(inbox[p]) \in Poison THEN faults ELSE faults + 1
  /\ UNCHANGED <<stream, due, inbox, handled, effects>>
Fail(p) ==
  /\ Next1(p)
  /\ Head(inbox[p]) \in Poison \/ faults < MaxFaults
  /\ faults' = IF Head(inbox[p]) \in Poison THEN faults ELSE faults + 1
  /\ due' = Again(Head(inbox[p])) /\ Done(p)
  /\ UNCHANGED <<stream, handled, effects>>

(* The server's acknowledgement wait is over: the message is due again.    *)
(* If its member is only slow, both deliveries are under way.              *)
Redeliver(m) ==
  /\ m \in stream \ due
  /\ InSomeInbox(m) => faults < MaxFaults
  /\ faults' = IF InSomeInbox(m) THEN faults + 1 ELSE faults
  /\ due' = due \cup {m}
  /\ UNCHANGED <<stream, inbox, handled, effects>>

(* a member dies with what was delivered to it, and is started again *)
Crash(p) ==
  /\ faults < MaxFaults /\ inbox[p] # <<>>
  /\ faults' = faults + 1
  /\ inbox' = [inbox EXCEPT ![p] = <<>>]
  /\ handled' = handled \ {p}
  /\ UNCHANGED <<stream, due, effects>>

Receive(p) == Handle(p) \/ Ack(p) \/ Fail(p)
Serve(m) == Redeliver(m) \/ \E p \in Members : Deliver(m, p)

Next ==
  \/ \E m \in Msgs : Publish(m) \/ Serve(m)
  \/ \E p \in Members : Receive(p) \/ LoseAck(p) \/ Crash(p)

Spec == Init /\ [][Next]_vars

(* the server delivers what is due, and each member's loop goes on *)
FairSpec ==
  /\ Spec
  /\ \A m \in Msgs : WF_vars(Serve(m))
  /\ \A p \in Members : WF_vars(Receive(p))
-----------------------------------------------------------------------------
(* Type invariant. *)
TypeOK ==
  /\ stream \subseteq Msgs /\ due \subseteq stream
  /\ inbox \in [Members -> Seq(Msgs)] /\ handled \subseteq Members
  /\ effects \in [Msgs -> Nat] /\ faults \in 0..MaxFaults

(* Each repetition of an effect is paid for by a fault: without crashes,   *)
(* lost acknowledgements and slow handlers it is exactly once.             *)
Repeats == UNION {{<<m, n>> : n \in 2..effects[m]} : m \in Msgs}
RepeatsExplained == Cardinality(Repeats) <= faults

DeliverySound == TypeOK /\ RepeatsExplained

(* Every published message is handled sooner or later, whatever is lost,   *)
(* late or redelivered, unless its handler always fails; the endless       *)
(* redelivery of one that does starves no other.                           *)
HandledEventually ==
  \A m \in Msgs \ Poison : m \in stream ~> effects[m] > 0
=============================================================================
