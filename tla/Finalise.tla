------------------------------ MODULE Finalise ------------------------------
(***************************************************************************)
(* POST /settlements/bas/finalise (services/api-gateway/src/routes/        *)
(* bas-settlement.ts) in one process: settlements, their counter and the   *)
(* idempotency store are Maps in its memory.  runIdempotent shares the     *)
(* work that is in flight, replays its result for 24 hours and then        *)
(* forgets it; the service mode (service-mode.ts) blocks writes; a restart *)
(* loses everything.                                                       *)
(***************************************************************************)
EXTENDS Integers, FiniteSets

CONSTANTS
  Calls,          \* requests to finalise
  KeyOf,          \* organisation and Idempotency-Key header
  BodyOf,         \* period and payload
  TTL,            \* IDEMPOTENCY_TTL_MS
  MaxClock,       \* bounds the clock
  MaxLives        \* bounds the restarts

Keys == {KeyOf[c] : c \in Calls}
Modes == {"normal", "read-only", "suspended"}

VARIABLES
  mode,           \* state of service-mode.ts
  store,          \* by key, the call that claimed it, when, and whether its
                  \* result is there; {} or a singleton
  settlements,    \* __basSettlementStore, by instruction id
  counter,        \* __basSettlementCounter
  pc,             \* where each request is, at the end what it was told
  clock, life,
  issued          \* history: every instruction ever prepared

memory == <<mode, store, settlements, counter>>
vars == <<memory, pc, clock, life, issued>>

Init ==
  /\ mode = "normal"
  /\ store = [k \in Keys |-> {}]
  /\ settlements = {} /\ counter = 0
  /\ pc = [c \in Calls |-> "idle"]
  /\ clock = 0 /\ life = 0 /\ issued = {}

Goto(c, from, to) == pc[c] = from /\ pc' = [pc EXCEPT ![c] = to]

(* pruneIdempotency *)
ExpiredBug(e) == clock - e.at >= TTL
Expired(e) == clock - e.at > TTL
Unexpired(k) == {e \in store[k] : ~Expired(e)}
Pruned == [k \in Keys |-> Unexpired(k)]

HeldBug(c) == {e \in Unexpired(KeyOf[c]) : e.done}
Held(c) == Unexpired(KeyOf[c])
SameBodyBug(c) == TRUE
SameBody(c) == \A e \in Held(c) : BodyOf[e.by] = BodyOf[c]

Claim(c, done) == {[by |-> c, at |-> clock, done |-> done]}

(* requireWritesEnabled runs before the handler, with no await between *)
Blocked(c) ==
  /\ mode # "normal"
  /\ Goto(c, "idle", "unavailable")
  /\ UNCHANGED <<memory, clock, life, issued>>

(* an existing entry: its result, its work in flight, or a conflict *)
Answered(c) ==
  /\ mode = "normal"
  /\ \E e \in Held(c) :
       Goto(c, "idle", IF ~SameBody(c) THEN "refused"
                       ELSE IF e.done THEN "replayed" ELSE "sharing")
  /\ store' = Pruned
  /\ UNCHANGED <<mode, settlements, counter, clock, life, issued>>

(* a new one: nextInstructionId and attachOrReplaceSettlement run before   *)
(* the first await                                                         *)
NextIdBug == IF counter = 0 THEN 1 ELSE counter
NextId == counter + 1

Prepare(c) ==
  /\ mode = "normal"
  /\ Held(c) = {}
  /\ Goto(c, "idle", "inflight")
  /\ counter' = NextId
  /\ settlements' = {s \in settlements : s.id # NextId} \cup {[id |-> NextId, by |-> c]}
  /\ store' = [Pruned EXCEPT ![KeyOf[c]] = Claim(c, FALSE)]
  /\ issued' = issued \cup {[id |-> NextId, by |-> c, at |-> clock, life |-> life]}
  /\ UNCHANGED <<mode, clock, life>>

Complete(c) ==
  /\ Goto(c, "inflight", "created")
  /\ store' = [store EXCEPT ![KeyOf[c]] = Claim(c, TRUE)]
  /\ UNCHANGED <<mode, settlements, counter, clock, life, issued>>

Share(c) ==
  /\ \E e \in store[KeyOf[c]] : e.done
  /\ Goto(c, "sharing", "replayed")
  /\ UNCHANGED <<memory, clock, life, issued>>

Answers == {"created", "replayed", "refused", "unavailable", "failed"}
Waiting == {c \in Calls : pc[c] \in {"inflight", "sharing"}}

(* nothing in flight waits for more than the microtask queue *)
Tick ==
  /\ clock < MaxClock /\ Waiting = {}
  /\ clock' = clock + 1
  /\ UNCHANGED <<memory, pc, life, issued>>

SetMode(m) ==
  /\ Waiting = {}
  /\ mode # m
  /\ mode' = m
  /\ UNCHANGED <<store, settlements, counter, pc, clock, life, issued>>

Restart ==
  /\ life < MaxLives
  /\ life' = life + 1
  /\ mode' = "normal"
  /\ store' = [k \in Keys |-> {}]
  /\ settlements' = {} /\ counter' = 0
  /\ pc' = [c \in Calls |-> IF c \in Waiting THEN "failed" ELSE pc[c]]
  /\ UNCHANGED <<clock, issued>>

Next ==
  \/ \E c \in Calls : Blocked(c) \/ Answered(c) \/ Prepare(c) \/ Complete(c) \/ Share(c)
  \/ Tick \/ Restart
  \/ \E m \in Modes : SetMode(m)

Spec == Init /\ [][Next]_vars
-----------------------------------------------------------------------------
(* Type invariant. *)
TypeOK ==
  /\ mode \in Modes
  /\ store \in [Keys -> SUBSET [by : Calls, at : 0..MaxClock, done : BOOLEAN]]
  /\ settlements \subseteq [id : Nat, by : Calls] /\ counter \in Nat
  /\ pc \in [Calls -> {"idle", "inflight", "sharing"} \cup Answers]
  /\ clock \in 0..MaxClock /\ life \in 0..MaxLives
  /\ issued \subseteq [id : Nat, by : Calls, at : 0..MaxClock, life : 0..MaxLives]

(* However requests overlap, two settlements are prepared for one key only *)
(* if more than the 24 hours or a restart lie between them.                *)
OncePerWindow ==
  \A i, j \in issued :
    KeyOf[i.by] = KeyOf[j.by] /\ i.life = j.life /\ i # j =>
      i.at - j.at > TTL \/ j.at - i.at > TTL

(* Instruction ids are given once in the life of a process: no settlement  *)
(* replaces another, and every one that was answered is still there.       *)
NothingReplaced ==
  /\ Cardinality(settlements) = counter
  /\ \A i \in issued : i.life = life => [id |-> i.id, by |-> i.by] \in settlements

FinaliseSound == TypeOK /\ OncePerWindow /\ NothingReplaced

(* The store with its sharing, expiry and restarts implements keys that    *)
(* are performed once until they are forgotten.                            *)
OwnerView == [k \in Keys |-> {e.by : e \in Unexpired(k)}]
Shown(stage) ==
  IF stage = "unavailable" THEN "failed"
  ELSE IF stage \in Answers THEN stage ELSE "open"
AnswerView == [c \in Calls |-> Shown(pc[c])]

OnceEach == INSTANCE OncePerKey
              WITH Forgets <- TRUE, owner <- OwnerView, answer <- AnswerView
ImplementsOncePerKey == OnceEach!Spec
=============================================================================
