----------------------------- MODULE AdminJobs -----------------------------
(***************************************************************************)
(* AdminJobService (services/api-gateway/src/admin/adminJobService.ts): a  *)
(* queue in memory from which at most limit jobs run as child processes,   *)
(* each killed when its time is up.  What runs between two awaits, the     *)
(* pump included, is one action.                                           *)
(***************************************************************************)
EXTENDS Integers, Sequences, FiniteSets

CONSTANTS
  Jobs,           \* calls of enqueue
  Limits,         \* values of ADMIN_MAX_CONCURRENCY, clamped to 1..8
  Stuck,          \* jobs whose pipes are held open by a grandchild for ever
  MaxCrashes      \* bounds the crashes of the gateway

VARIABLES
  limit,          \* limits.maxConcurrency, read when the process starts
  runs,           \* the list of runs, oldest first
  queue,          \* the tasks not yet started
  active,         \* the number of slots taken
  status,         \* AdminJobRun.status, "none" before the run exists
  pc,             \* where each call and its task are
  child,          \* its child process
  killedByTimeout,
  crashes

vars == <<limit, runs, queue, active, status, pc, child, killedByTimeout, crashes>>

Init ==
  /\ limit \in Limits
  /\ runs = <<>> /\ queue = <<>> /\ active = 0 /\ crashes = 0
  /\ status = [j \in Jobs |-> "none"]
  /\ pc = [j \in Jobs |-> "idle"]
  /\ child = [j \in Jobs |-> "none"]
  /\ killedByTimeout = {}

Goto(j, from, to) == pc[j] = from /\ pc' = [pc EXCEPT ![j] = to]

(* enqueue: mkdir of the log directory, which may fail *)
Enqueue(j) ==
  /\ \/ Goto(j, "idle", "mkdir")
     \/ Goto(j, "mkdir", "rejected")
  /\ UNCHANGED <<limit, runs, queue, active, status, child, killedByTimeout, crashes>>

(* pump, entered with a slots taken and tasks q: shifts tasks off the      *)
(* queue while there is a slot, and each runs up to its child's end.       *)
OneTooManyBug(a, q) == IF limit + 1 - a < Len(q) THEN limit + 1 - a ELSE Len(q)
Taken(a, q) == IF limit - a < Len(q) THEN limit - a ELSE Len(q)

Shifted(q, n) == {q[i] : i \in 1..n}
PoppedBug(q, n) == SubSeq(q, 1, Len(q) - n)
Rest(q, n) == SubSeq(q, n + 1, Len(q))

Pump(a, q, stages, statuses) ==
  LET started == Shifted(q, Taken(a, q)) IN
  /\ active' = a + Taken(a, q)
  /\ queue' = Rest(q, Taken(a, q))
  /\ pc' = [j \in Jobs |-> IF j \in started THEN "running" ELSE stages[j]]
  /\ status' = [j \in Jobs |-> IF j \in started THEN "running" ELSE statuses[j]]
  /\ child' = [j \in Jobs |-> IF j \in started THEN "alive" ELSE child[j]]

Push(j) ==
  /\ pc[j] = "mkdir"
  /\ runs' = Append(runs, j)
  /\ Pump(active, Append(queue, j), [pc EXCEPT ![j] = "queued"],
          [status EXCEPT ![j] = "queued"])
  /\ UNCHANGED <<limit, killedByTimeout, crashes>>

(* the child ends by itself, with exit code 0 or another *)
Exit(j) ==
  /\ child[j] = "alive"
  /\ \E end \in {"ok", "error"} : child' = [child EXCEPT ![j] = end]
  /\ UNCHANGED <<limit, runs, queue, active, status, pc, killedByTimeout, crashes>>

(* the timer: it is cleared at the child's close, not at its exit *)
TimeoutNoKillBug(j) ==
  /\ pc[j] = "running" /\ j \notin killedByTimeout
  /\ killedByTimeout' = killedByTimeout \cup {j}
  /\ UNCHANGED <<limit, runs, queue, active, status, pc, child, crashes>>
Timeout(j) ==
  /\ pc[j] = "running" /\ j \notin killedByTimeout
  /\ killedByTimeout' = killedByTimeout \cup {j}
  /\ child' = [child EXCEPT ![j] = IF @ = "alive" THEN "killed" ELSE @]
  /\ UNCHANGED <<limit, runs, queue, active, status, pc, crashes>>

(* close: the child is over and its pipes are closed *)
Close(j) ==
  /\ child[j] \in {"ok", "error", "killed"} /\ j \notin Stuck
  /\ Goto(j, "running", "closed")
  /\ UNCHANGED <<limit, runs, queue, active, status, child, killedByTimeout, crashes>>

(* the log is written, and then the status *)
OutcomeBug(j) == IF child[j] = "ok" THEN "succeeded" ELSE "failed"
Outcome(j) ==
  IF j \notin killedByTimeout /\ child[j] = "ok" THEN "succeeded" ELSE "failed"

WriteLog(j) ==
  /\ Goto(j, "closed", "result")
  /\ status' = [status EXCEPT ![j] = Outcome(j)]
  /\ UNCHANGED <<limit, runs, queue, active, child, killedByTimeout, crashes>>

(* the task settles: finally frees the slot and pumps.  The file with the  *)
(* result is read with best effort; an error writing the log is swallowed  *)
(* and the run never gets another status.                                  *)
ReleaseBug(j, from, to) ==
  /\ pc[j] = from
  /\ Pump(IF to = "done" THEN active - 1 ELSE active, queue, [pc EXCEPT ![j] = to],
          status)
  /\ UNCHANGED <<limit, runs, killedByTimeout, crashes>>
Release(j, from, to) ==
  /\ pc[j] = from
  /\ Pump(active - 1, queue, [pc EXCEPT ![j] = to], status)
  /\ UNCHANGED <<limit, runs, killedByTimeout, crashes>>

Finish(j) == Release(j, "result", "done")
LogFails(j) == Release(j, "closed", "unlogged")

(* The gateway dies, for instance of the error event of a command that     *)
(* cannot be spawned, which nobody listens to: runs and queue are gone.    *)
Over == {"rejected", "done", "unlogged", "lost"}

Crash ==
  /\ crashes < MaxCrashes
  /\ crashes' = crashes + 1
  /\ runs' = <<>> /\ queue' = <<>> /\ active' = 0
  /\ status' = [j \in Jobs |-> "none"]
  /\ pc' = [j \in Jobs |-> IF pc[j] \in Over \cup {"idle"} THEN pc[j] ELSE "lost"]
  /\ child' = [j \in Jobs |-> "none"]
  /\ killedByTimeout' = {}
  /\ UNCHANGED limit

Proceed(j) ==
  \/ Push(j) \/ Timeout(j) \/ Close(j) \/ WriteLog(j) \/ Finish(j) \/ LogFails(j)

Next ==
  \/ \E j \in Jobs : Enqueue(j) \/ Exit(j) \/ Proceed(j)
  \/ Crash

Spec == Init /\ [][Next]_vars

(* the event loop runs on, timers fire, the operating system reports the   *)
(* end of a child; that a child ends by itself is not assumed              *)
FairSpec == Spec /\ \A j \in Jobs : WF_vars(Proceed(j))
-----------------------------------------------------------------------------
Holding == {j \in Jobs : pc[j] \in {"running", "closed", "result"}}
Queued == {j \in Jobs : pc[j] = "queued"}

(* Type invariant. *)
TypeOK ==
  /\ runs \in Seq(Jobs) /\ queue \in Seq(Jobs)
  /\ limit \in Limits /\ active \in 0..limit /\ crashes \in 0..MaxCrashes
  /\ status \in [Jobs -> {"none", "queued", "running", "succeeded", "failed"}]
  /\ pc \in [Jobs -> {"idle", "mkdir", "queued", "running", "closed", "result"} \cup Over]
  /\ child \in [Jobs -> {"none", "alive", "ok", "error", "killed"}]
  /\ killedByTimeout \subseteq Jobs

(* Whatever jobs fail, time out or cannot be logged, the slots counted are *)
(* the slots held: none leaks and none is given twice.                     *)
SlotsHeld == active = Cardinality(Holding)

(* No wake-up is lost: a job waits only while every slot is taken.         *)
WorkConserving == Queued # {} => active = limit

(* Jobs start in the order in which they were listed.                      *)
InOrder ==
  \A i, k \in DOMAIN runs : i < k /\ runs[i] \in Queued => runs[k] \in Queued

(* A job whose time was up is never reported as succeeded.                 *)
TimeoutTold == \A j \in killedByTimeout : status[j] # "succeeded"

SlotsSound == TypeOK /\ SlotsHeld /\ WorkConserving /\ InOrder /\ TimeoutTold

(* As long as one slot is not held by a stuck child, every other job that  *)
(* was queued ends, although no child need ever end by itself.             *)
JobsEnd ==
  Cardinality(Stuck) < limit =>
    \A j \in Jobs \ Stuck : pc[j] = "queued" ~> pc[j] \in Over
=============================================================================
