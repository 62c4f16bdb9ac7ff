------------------------- MODULE ConcurrencyLimiter -------------------------
(***************************************************************************)
(* The FIFO admission gate for background runs                             *)
(* (pi-subagents/src/lifecycle/concurrency-limiter.ts).                    *)
(*                                                                         *)
(* A task is a thunk handed to schedule().  It waits in `pending`, is      *)
(* started by recheck() while fewer than `limit` slots are in use, holds   *)
(* its slot until its own promise has settled AND the `finally` callback   *)
(* behind it has run, and may be dropped by clear() before it starts.      *)
(*                                                                         *)
(* JavaScript runs one callback at a time, so recheck() is atomic towards  *)
(* timers and promise callbacks; it is not atomic towards the tasks it     *)
(* starts, whose synchronous prefix may call schedule(), clear() or change *)
(* the limit in the middle of its loop.  `recheck` says whether a          *)
(* recheck() is on the stack: each start is a step of its own, and only a  *)
(* call made by the task just started interleaves with the loop.  One such *)
(* call per start is modelled.                                             *)
(***************************************************************************)
EXTENDS Naturals, Sequences, FiniteSets

CONSTANTS
  Task,   \* the thunks a caller may schedule
  Limit   \* the values maxConcurrent may take (settings.ts: at least 1)

ASSUME TaskAssumption == IsFiniteSet(Task)
ASSUME LimitAssumption == Limit \subseteq Nat \ {0} /\ Limit # {}

VARIABLES
  limit,       \* settings.maxConcurrent, read by every recheck
  active,      \* slots in use
  pending,     \* scheduled thunks waiting for a slot, oldest first
  slot,        \* where each task is: see SlotState
  recheck      \* the recheck() on the call stack: see RecheckState

limiterVars == <<limit, active, pending, slot, recheck>>

(***************************************************************************)
(* "settled": the task's promise has settled and the caller's promise with *)
(* it, but `finally` has not yet given the slot back.  "idle" is a task    *)
(* nobody has scheduled, or whose promise has settled for good.            *)
(***************************************************************************)
SlotState == {"idle", "pending", "running", "settled"}

(* "no": none.  "loop": about to test the loop condition.  "task": in the  *)
(* synchronous prefix of the task the loop has just started.               *)
RecheckState == {"no", "loop", "task"}

Quiet == recheck = "no"
MayCall == recheck \in {"no", "task"}

(* After a call that does not recheck itself, the loop below it goes on. *)
ResumedRecheck == IF Quiet THEN "no" ELSE "loop"

Holding == {t \in Task : slot[t] \in {"running", "settled"}}
Waiting == {t \in Task : slot[t] = "pending"}

LimiterInit ==
  /\ limit \in Limit
  /\ active = 0
  /\ pending = <<>>
  /\ slot = [t \in Task |-> "idle"]
  /\ recheck = "no"

-----------------------------------------------------------------------------
(* Bugs the properties must catch, each in place of the definition below. *)

EnqueueInFront(t) == pending' = <<t>> \o pending
ReleaseNoRecheck(t) ==
  /\ Quiet
  /\ slot[t] = "settled"
  /\ slot' = [slot EXCEPT ![t] = "idle"]
  /\ active' = active - 1
  /\ UNCHANGED <<limit, pending, recheck>>
ClearKeepsPromises ==
  /\ MayCall
  /\ pending' = <<>>
  /\ recheck' = ResumedRecheck
  /\ UNCHANGED <<limit, active, slot>>

-----------------------------------------------------------------------------
(* recheck()'s loop condition reads the limit afresh on every iteration. *)
SlotFree == active < limit

Enqueue(t) == pending' = Append(pending, t)

(* schedule(): push the task, then recheck().  May be called re-entrantly. *)
Schedule(t) ==
  /\ MayCall
  /\ slot[t] = "idle"
  /\ Enqueue(t)
  /\ slot' = [slot EXCEPT ![t] = "pending"]
  /\ recheck' = "loop"
  /\ UNCHANGED <<limit, active>>

(* One iteration of recheck(): shift the oldest task and start it. *)
StartNext ==
  /\ ~Quiet
  /\ SlotFree
  /\ pending # <<>>
  /\ pending' = Tail(pending)
  /\ slot' = [slot EXCEPT ![Head(pending)] = "running"]
  /\ active' = active + 1
  /\ recheck' = "task"
  /\ UNCHANGED limit

(* recheck()'s loop ends: no free slot, or nothing pending. *)
RecheckDone ==
  /\ ~Quiet
  /\ ~SlotFree \/ pending = <<>>
  /\ recheck' = "no"
  /\ UNCHANGED <<limit, active, pending, slot>>

(* The task's promise settles, and the caller's promise follows it. *)
Settle(t) ==
  /\ Quiet
  /\ slot[t] = "running"
  /\ slot' = [slot EXCEPT ![t] = "settled"]
  /\ UNCHANGED <<limit, active, pending, recheck>>

(* The `finally` callback: give the slot back and recheck. *)
Release(t) ==
  /\ Quiet
  /\ slot[t] = "settled"
  /\ slot' = [slot EXCEPT ![t] = "idle"]
  /\ active' = active - 1
  /\ recheck' = "loop"
  /\ UNCHANGED <<limit, pending>>

(* applyMaxConcurrent(): the setting changes and onMaxConcurrentChanged    *)
(* rechecks.  Lowering the limit stops nothing that runs.                  *)
SetLimit(n) ==
  /\ MayCall
  /\ limit' = n
  /\ recheck' = "loop"
  /\ UNCHANGED <<active, pending, slot>>

(* clear(): drop what is pending, resolving each dropped promise. *)
Clear ==
  /\ MayCall
  /\ pending' = <<>>
  /\ recheck' = ResumedRecheck
  /\ slot' = [t \in Task |-> IF slot[t] = "pending" THEN "idle" ELSE slot[t]]
  /\ UNCHANGED <<limit, active>>

LimiterNext ==
  \/ \E t \in Task : Schedule(t)
  \/ StartNext
  \/ RecheckDone
  \/ \E t \in Task : Settle(t)
  \/ \E t \in Task : Release(t)
  \/ \E n \in Limit : SetLimit(n)
  \/ Clear

LimiterSpec == LimiterInit /\ [][LimiterNext]_limiterVars

(***************************************************************************)
(* A recheck() on the stack goes on until it returns.  A queued callback   *)
(* runs once the stack has emptied, however often other callbacks fill it  *)
(* again: strong fairness.  That a task's own promise settles is an        *)
(* assumption on the task: Subagent.run() and resume() always resolve.     *)
(***************************************************************************)
LimiterFairness ==
  /\ WF_limiterVars(StartNext)
  /\ WF_limiterVars(RecheckDone)
  /\ \A t \in Task : SF_limiterVars(Settle(t)) /\ SF_limiterVars(Release(t))

LimiterFairSpec == LimiterSpec /\ LimiterFairness

-----------------------------------------------------------------------------
(* Every variable has its type. *)
LimiterTypeOK ==
  /\ limit \in Limit
  /\ active \in Nat
  /\ pending \in Seq(Task)
  /\ slot \in [Task -> SlotState]
  /\ recheck \in RecheckState

(* The counter is exactly the number of tasks that hold a slot, whatever   *)
(* the order in which promises settle, the limit moves and clear() runs: a *)
(* slot is neither leaked nor given back twice.                            *)
SlotAccounting == active = Cardinality(Holding)

(* The queue holds each waiting task once and nothing else: no promise is  *)
(* left waiting that the limiter has forgotten ("Every scheduled promise   *)
(* settles"), and no task can be started twice.                            *)
QueueAccounting ==
  /\ \A i, j \in 1 .. Len(pending) : pending[i] = pending[j] => i = j
  /\ {pending[i] : i \in 1 .. Len(pending)} = Waiting

(* No lost wakeup: outside a recheck() a task waits only while the slots   *)
(* are all taken, after any release, limit change or re-entrant schedule.  *)
NoIdleSlot == Quiet => pending = <<>> \/ active >= limit

(* "running them in scheduling order": no task overtakes another.  A task  *)
(* never starts while one ahead of it is still waiting, and what is ahead  *)
(* of a waiting task only shrinks, whoever schedules more.                 *)
FifoAdmission ==
  [][\A i \in 1 .. Len(pending) :
       /\ slot'[pending[i]] = "running" => \A h \in 1 .. i - 1 : slot'[pending[h]] # "pending"
       /\ slot'[pending[i]] = "pending" =>
            \E k \in 1 .. Len(pending') : k <= i /\ pending'[k] = pending[i]]_limiterVars

(* The limiter is a gate: whatever re-enters recheck(), whenever the limit *)
(* moves and callbacks run, the tasks come and go through a line of those  *)
(* that wait and a set of those that hold a slot, in the order of arrival, *)
(* and nobody is let in past the limit of the moment.                      *)
Gate == INSTANCE AdmissionGate WITH queue <- pending, holders <- Holding
KeepsTheGate == Gate!GateSpec

(* A lowered limit preempts nothing but is respected from then on: while   *)
(* more slots are in use than the limit allows, none is added.             *)
OverLimitOnlyDrains == [][active >= limit => active' <= active]_limiterVars

(* Every scheduled promise settles: it follows its task, or clear()        *)
(* resolves it, and neither a lowered limit nor later arrivals starve it.  *)
EveryPromiseSettles ==
  \A t \in Task : slot[t] = "pending" ~> slot[t] \in {"settled", "idle"}
=============================================================================
