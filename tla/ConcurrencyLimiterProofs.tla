---------------------- MODULE ConcurrencyLimiterProofs ----------------------
(***************************************************************************)
(* The safety of the FIFO admission gate, for every finite set of tasks    *)
(* and every set of positive limits.                                       *)
(*                                                                         *)
(* LimiterInv is inductive as it stands: the counter needs the slots, the  *)
(* absence of a lost wakeup needs only recheck()'s exit condition, and the *)
(* queue's contents are related to the slots both ways.                    *)
(***************************************************************************)
EXTENDS ConcurrencyLimiter, FiniteSetTheorems, SequenceTheorems, TLAPS

LimiterInv == LimiterTypeOK /\ SlotAccounting /\ QueueAccounting /\ NoIdleSlot

-----------------------------------------------------------------------------
(* QueueAccounting, element by element: the form the steps are proved in. *)
QueueDistinct == \A i, j \in 1 .. Len(pending) : pending[i] = pending[j] => i = j
QueueWaits == \A i \in 1 .. Len(pending) : slot[pending[i]] = "pending"
WaitersQueued == \A t \in Task : slot[t] = "pending" => \E i \in 1 .. Len(pending) : pending[i] = t

(* The two ways of stating QueueAccounting agree.                          *)
LEMMA QueueByElement ==
  ASSUME LimiterTypeOK
  PROVE  QueueAccounting <=> QueueDistinct /\ QueueWaits /\ WaitersQueued
<1>1. \A i \in 1 .. Len(pending) : pending[i] \in Task
  BY ElementOfSeq DEF LimiterTypeOK
<1>2. QED
  BY <1>1 DEF QueueAccounting, QueueDistinct, QueueWaits, WaitersQueued, Waiting

(* The holders can be counted. *)
LEMMA HoldingFinite == IsFiniteSet(Holding) /\ Cardinality(Holding) \in Nat
  BY TaskAssumption, FS_Subset, FS_CardinalityType DEF Holding

(* A task that takes a slot adds one holder.                               *)
LEMMA HolderAdded ==
  ASSUME NEW t \in Task, t \notin Holding, Holding' = Holding \cup {t}
  PROVE  Cardinality(Holding') = Cardinality(Holding) + 1
  BY HoldingFinite, FS_AddElement

(* A task that gives its slot back takes one holder away.                  *)
LEMMA HolderRemoved ==
  ASSUME NEW t \in Task, t \in Holding, Holding' = Holding \ {t}
  PROVE  Cardinality(Holding') = Cardinality(Holding) - 1 /\ Cardinality(Holding) > 0
<1>1. Cardinality(Holding') = Cardinality(Holding) - 1
  BY HoldingFinite, FS_RemoveElement
<1>2. Holding # {}
  OBVIOUS
<1>3. Cardinality(Holding) # 0
  BY <1>2, HoldingFinite, FS_EmptySet
<1>4. QED
  BY <1>1, <1>3, HoldingFinite

-----------------------------------------------------------------------------
(* At first nothing is scheduled.                                          *)
LEMMA LimiterInitially == LimiterInit => LimiterInv
<1> SUFFICES ASSUME LimiterInit PROVE LimiterInv
  OBVIOUS
<1>1. LimiterTypeOK
  BY LimitAssumption, EmptySeq DEF LimiterInit, LimiterTypeOK, SlotState, RecheckState
<1>2. SlotAccounting
  <2>1. Holding = {}
    BY DEF LimiterInit, Holding
  <2>2. QED
    BY <2>1, FS_EmptySet DEF LimiterInit, SlotAccounting
<1>3. QueueAccounting
  <2>1. QueueDistinct /\ QueueWaits /\ WaitersQueued
    BY EmptySeq DEF LimiterInit, QueueDistinct, QueueWaits, WaitersQueued
  <2>2. QED
    BY <1>1, <2>1, QueueByElement
<1>4. NoIdleSlot
  BY DEF LimiterInit, NoIdleSlot
<1>5. QED
  BY <1>1, <1>2, <1>3, <1>4 DEF LimiterInv

(* Every step keeps the types; a slot is given back only by a holder.      *)
LEMMA TypePreserved == LimiterTypeOK /\ SlotAccounting /\ [LimiterNext]_limiterVars => LimiterTypeOK'
<1> SUFFICES ASSUME LimiterTypeOK, SlotAccounting, [LimiterNext]_limiterVars PROVE LimiterTypeOK'
  OBVIOUS
<1> USE DEF LimiterTypeOK, SlotState, RecheckState
<1>1. ASSUME NEW t \in Task, Schedule(t) PROVE LimiterTypeOK'
  BY <1>1, AppendProperties DEF Schedule, Enqueue
<1>2. CASE StartNext
  <2>1. Head(pending) \in Task /\ Tail(pending) \in Seq(Task)
    BY <1>2, HeadTailProperties DEF StartNext
  <2>2. QED
    BY <1>2, <2>1 DEF StartNext
<1>3. CASE RecheckDone
  BY <1>3 DEF RecheckDone
<1>4. ASSUME NEW t \in Task, Settle(t) PROVE LimiterTypeOK'
  BY <1>4 DEF Settle
<1>5. ASSUME NEW t \in Task, Release(t) PROVE LimiterTypeOK'
  <2>1. t \in Holding
    BY <1>5 DEF Release, Holding
  <2>2. active > 0
    BY <2>1, HoldingFinite, FS_EmptySet DEF SlotAccounting
  <2>3. active' \in Nat
    BY <1>5, <2>2 DEF Release
  <2>4. QED
    BY <1>5, <2>3 DEF Release
<1>6. ASSUME NEW n \in Limit, SetLimit(n) PROVE LimiterTypeOK'
  BY <1>6 DEF SetLimit
<1>7. CASE Clear
  BY <1>7, EmptySeq DEF Clear, ResumedRecheck
<1>8. CASE UNCHANGED limiterVars
  BY <1>8 DEF limiterVars
<1>9. QED
  BY <1>1, <1>2, <1>3, <1>4, <1>5, <1>6, <1>7, <1>8 DEF LimiterNext

(* Each step changes the counter as it changes the set of holders.         *)
LEMMA SlotsPreserved ==
  LimiterTypeOK /\ SlotAccounting /\ QueueAccounting /\ [LimiterNext]_limiterVars => SlotAccounting'
<1> SUFFICES ASSUME LimiterTypeOK, SlotAccounting, QueueAccounting, [LimiterNext]_limiterVars
             PROVE  SlotAccounting'
  OBVIOUS
<1>1. ASSUME NEW t \in Task, Schedule(t) PROVE SlotAccounting'
  <2>1. Holding' = Holding
    BY <1>1 DEF Schedule, Holding, LimiterTypeOK
  <2>2. QED
    BY <1>1, <2>1 DEF Schedule, SlotAccounting
<1>2. CASE StartNext
  <2> DEFINE h == Head(pending)
  <2>1. h \in Task /\ pending[1] = h /\ 1 \in 1 .. Len(pending)
    BY <1>2, HeadTailProperties, EmptySeq DEF StartNext, LimiterTypeOK
  <2>2. slot[h] = "pending"
    BY <2>1, QueueByElement DEF QueueWaits
  <2>3. h \notin Holding /\ Holding' = Holding \cup {h}
    BY <1>2, <2>1, <2>2 DEF StartNext, Holding, LimiterTypeOK
  <2>4. Cardinality(Holding') = Cardinality(Holding) + 1
    BY <2>1, <2>3, HolderAdded
  <2>5. QED
    BY <1>2, <2>4 DEF StartNext, SlotAccounting
<1>3. CASE RecheckDone
  BY <1>3 DEF RecheckDone, SlotAccounting, Holding
<1>4. ASSUME NEW t \in Task, Settle(t) PROVE SlotAccounting'
  <2>1. Holding' = Holding
    BY <1>4 DEF Settle, Holding, LimiterTypeOK
  <2>2. QED
    BY <1>4, <2>1 DEF Settle, SlotAccounting
<1>5. ASSUME NEW t \in Task, Release(t) PROVE SlotAccounting'
  <2>1. t \in Holding /\ Holding' = Holding \ {t}
    BY <1>5 DEF Release, Holding, LimiterTypeOK
  <2>2. Cardinality(Holding') = Cardinality(Holding) - 1
    BY <2>1, HolderRemoved
  <2>3. QED
    BY <1>5, <2>2 DEF Release, SlotAccounting
<1>6. ASSUME NEW n \in Limit, SetLimit(n) PROVE SlotAccounting'
  BY <1>6 DEF SetLimit, SlotAccounting, Holding
<1>7. CASE Clear
  <2>1. Holding' = Holding
    BY <1>7 DEF Clear, Holding, LimiterTypeOK
  <2>2. QED
    BY <1>7, <2>1 DEF Clear, SlotAccounting
<1>8. CASE UNCHANGED limiterVars
  BY <1>8 DEF limiterVars, SlotAccounting, Holding
<1>9. QED
  BY <1>1, <1>2, <1>3, <1>4, <1>5, <1>6, <1>7, <1>8 DEF LimiterNext

(* Each step changes the queue as it changes the set of waiting tasks.     *)
LEMMA QueuePreserved ==
  LimiterTypeOK /\ LimiterTypeOK' /\ QueueAccounting /\ [LimiterNext]_limiterVars => QueueAccounting'
<1> SUFFICES ASSUME LimiterTypeOK, LimiterTypeOK', QueueAccounting, [LimiterNext]_limiterVars
             PROVE  QueueAccounting'
  OBVIOUS
<1>0. /\ QueueDistinct /\ QueueWaits /\ WaitersQueued
      /\ Len(pending) \in Nat
      /\ \A i \in 1 .. Len(pending) : pending[i] \in Task
  BY QueueByElement, ElementOfSeq, LenProperties DEF LimiterTypeOK
<1> SUFFICES QueueDistinct' /\ QueueWaits' /\ WaitersQueued'
  <2>1. LimiterTypeOK' /\ QueueDistinct' /\ QueueWaits' /\ WaitersQueued' => QueueAccounting'
    BY QueueByElement, PTL
  <2>2. QED
    BY <2>1
<1>1. ASSUME NEW t \in Task, Schedule(t) PROVE QueueDistinct' /\ QueueWaits' /\ WaitersQueued'
  <2>1. /\ Len(pending') = Len(pending) + 1
        /\ \A i \in 1 .. Len(pending) : pending'[i] = pending[i]
        /\ pending'[Len(pending) + 1] = t
    BY <1>1, AppendProperties DEF Schedule, Enqueue, LimiterTypeOK
  <2>2. /\ slot[t] = "idle"
        /\ \A u \in Task : slot'[u] = IF u = t THEN "pending" ELSE slot[u]
    BY <1>1 DEF Schedule, LimiterTypeOK
  <2>3. \A i \in 1 .. Len(pending) : pending[i] # t
    BY <1>0, <2>2 DEF QueueWaits
  <2>4. QueueDistinct'
    BY <1>0, <2>1, <2>3 DEF QueueDistinct
  <2>5. QueueWaits'
    BY <1>0, <2>1, <2>2 DEF QueueWaits
  <2>6. WaitersQueued'
    BY <1>0, <2>1, <2>2 DEF WaitersQueued
  <2>7. QED
    BY <2>4, <2>5, <2>6
<1>2. CASE StartNext
  <2> DEFINE h == Head(pending)
  <2>1. /\ h \in Task /\ pending[1] = h /\ 1 \in 1 .. Len(pending)
        /\ Len(pending') = Len(pending) - 1
        /\ \A i \in 1 .. Len(pending') : pending'[i] = pending[i + 1]
    BY <1>2, HeadTailProperties, EmptySeq DEF StartNext, LimiterTypeOK
  <2>2. \A u \in Task : slot'[u] = IF u = h THEN "running" ELSE slot[u]
    BY <1>2, <2>1 DEF StartNext, LimiterTypeOK
  <2>3. \A i \in 1 .. Len(pending') : i + 1 \in 1 .. Len(pending) /\ pending'[i] # h
    BY <1>0, <2>1 DEF QueueDistinct
  <2>4. QueueDistinct'
    BY <1>0, <2>1, <2>3 DEF QueueDistinct
  <2>5. QueueWaits'
    BY <1>0, <2>1, <2>2, <2>3 DEF QueueWaits
  <2>6. WaitersQueued'
    <3> SUFFICES ASSUME NEW u \in Task, slot'[u] = "pending"
                 PROVE  \E i \in 1 .. Len(pending') : pending'[i] = u
      BY DEF WaitersQueued
    <3>1. u # h /\ slot[u] = "pending"
      BY <2>1, <2>2
    <3>2. PICK k \in 1 .. Len(pending) : pending[k] = u
      BY <1>0, <3>1 DEF WaitersQueued
    <3>3. k - 1 \in 1 .. Len(pending') /\ pending'[k - 1] = u
      BY <1>0, <2>1, <3>1, <3>2
    <3>4. QED
      BY <3>3
  <2>7. QED
    BY <2>4, <2>5, <2>6
<1>3. CASE RecheckDone
  BY <1>0, <1>3 DEF RecheckDone, QueueDistinct, QueueWaits, WaitersQueued
<1>4. ASSUME NEW t \in Task, Settle(t) PROVE QueueDistinct' /\ QueueWaits' /\ WaitersQueued'
  <2>1. slot[t] = "running" /\ \A u \in Task : slot'[u] = IF u = t THEN "settled" ELSE slot[u]
    BY <1>4 DEF Settle, LimiterTypeOK
  <2>2. pending' = pending
    BY <1>4 DEF Settle
  <2>3. QED
    BY <1>0, <2>1, <2>2 DEF QueueDistinct, QueueWaits, WaitersQueued
<1>5. ASSUME NEW t \in Task, Release(t) PROVE QueueDistinct' /\ QueueWaits' /\ WaitersQueued'
  <2>1. slot[t] = "settled" /\ \A u \in Task : slot'[u] = IF u = t THEN "idle" ELSE slot[u]
    BY <1>5 DEF Release, LimiterTypeOK
  <2>2. pending' = pending
    BY <1>5 DEF Release
  <2>3. QED
    BY <1>0, <2>1, <2>2 DEF QueueDistinct, QueueWaits, WaitersQueued
<1>6. ASSUME NEW n \in Limit, SetLimit(n) PROVE QueueDistinct' /\ QueueWaits' /\ WaitersQueued'
  BY <1>0, <1>6 DEF SetLimit, QueueDistinct, QueueWaits, WaitersQueued
<1>7. CASE Clear
  <2>1. Len(pending') = 0
    BY <1>7, EmptySeq DEF Clear
  <2>2. \A u \in Task : slot'[u] # "pending"
    BY <1>7 DEF Clear
  <2>3. QED
    BY <2>1, <2>2 DEF QueueDistinct, QueueWaits, WaitersQueued
<1>8. CASE UNCHANGED limiterVars
  BY <1>0, <1>8 DEF limiterVars, QueueDistinct, QueueWaits, WaitersQueued
<1>9. QED
  BY <1>1, <1>2, <1>3, <1>4, <1>5, <1>6, <1>7, <1>8 DEF LimiterNext

(* recheck() ends only when nothing can start.                             *)
LEMMA WakeupPreserved == LimiterTypeOK /\ NoIdleSlot /\ [LimiterNext]_limiterVars => NoIdleSlot'
<1> SUFFICES ASSUME LimiterTypeOK, NoIdleSlot, [LimiterNext]_limiterVars PROVE NoIdleSlot'
  OBVIOUS
<1> USE DEF NoIdleSlot, Quiet
<1>1. ASSUME NEW t \in Task, Schedule(t) PROVE NoIdleSlot'
  BY <1>1 DEF Schedule
<1>2. CASE StartNext
  BY <1>2 DEF StartNext
<1>3. CASE RecheckDone
  BY <1>3, LimitAssumption DEF RecheckDone, SlotFree, LimiterTypeOK
<1>4. ASSUME NEW t \in Task, Settle(t) PROVE NoIdleSlot'
  BY <1>4 DEF Settle
<1>5. ASSUME NEW t \in Task, Release(t) PROVE NoIdleSlot'
  BY <1>5 DEF Release
<1>6. ASSUME NEW n \in Limit, SetLimit(n) PROVE NoIdleSlot'
  BY <1>6 DEF SetLimit
<1>7. CASE Clear
  BY <1>7 DEF Clear
<1>8. CASE UNCHANGED limiterVars
  BY <1>8 DEF limiterVars
<1>9. QED
  BY <1>1, <1>2, <1>3, <1>4, <1>5, <1>6, <1>7, <1>8 DEF LimiterNext

-----------------------------------------------------------------------------
(* LimiterInv is an invariant of the limiter, whatever is scheduled and in *)
(* whatever order promises settle.                                         *)
THEOREM LimiterInvariant == LimiterSpec => []LimiterInv
<1>1. LimiterInit => LimiterInv
  BY LimiterInitially
<1>2. LimiterInv /\ [LimiterNext]_limiterVars => LimiterInv'
  BY TypePreserved, SlotsPreserved, QueuePreserved, WakeupPreserved DEF LimiterInv
<1>3. QED
  BY <1>1, <1>2, PTL DEF LimiterSpec

(* Every variable of the limiter keeps its type. *)
THEOREM LimiterTypeCorrect == LimiterSpec => []LimiterTypeOK
<1>1. LimiterInv => LimiterTypeOK
  BY DEF LimiterInv
<1>2. QED
  BY <1>1, LimiterInvariant, PTL

(* A slot is neither leaked nor given back twice. *)
THEOREM SlotsAccounted == LimiterSpec => []SlotAccounting
<1>1. LimiterInv => SlotAccounting
  BY DEF LimiterInv
<1>2. QED
  BY <1>1, LimiterInvariant, PTL

(* The queue holds each waiting task exactly once, and nothing else. *)
THEOREM QueueAccounted == LimiterSpec => []QueueAccounting
<1>1. LimiterInv => QueueAccounting
  BY DEF LimiterInv
<1>2. QED
  BY <1>1, LimiterInvariant, PTL

(* No lost wakeup: outside recheck() a task waits only for a full gate. *)
THEOREM NoLostWakeup == LimiterSpec => []NoIdleSlot
<1>1. LimiterInv => NoIdleSlot
  BY DEF LimiterInv
<1>2. QED
  BY <1>1, LimiterInvariant, PTL

-----------------------------------------------------------------------------
(* Each step of the limiter is a step of the gate, or shows nothing of it: *)
(* the counter the loop tests is the number of holders, and what it shifts *)
(* from the queue is the first that waits.                                 *)
THEOREM GateImplemented == LimiterSpec => KeepsTheGate
<1> USE DEF Gate!gateVars
<1>1. LimiterInit => Gate!GateInit
  BY DEF LimiterInit, Gate!GateInit, Holding
<1>2. ASSUME LimiterInv, [LimiterNext]_limiterVars PROVE [Gate!GateNext]_(Gate!gateVars)
  <2>0. LimiterTypeOK /\ SlotAccounting /\ QueueWaits
    BY <1>2, QueueByElement DEF LimiterInv
  <2>1. ASSUME NEW t \in Task, Schedule(t) PROVE Gate!Arrive(t)
    <3>1. t \notin Gate!InLine /\ t \notin Holding
      BY <2>0, <2>1 DEF Gate!InLine, QueueWaits, Schedule, Holding
    <3>2. Holding' = Holding
      BY <2>0, <2>1 DEF Schedule, Holding, LimiterTypeOK
    <3>3. QED
      BY <2>1, <3>1, <3>2 DEF Schedule, Enqueue, Gate!Arrive
  <2>2. CASE StartNext
    <3>1. Head(pending) \in Task
      BY <2>0, <2>2, HeadTailProperties DEF StartNext, LimiterTypeOK
    <3>2. Holding' = Holding \cup {Head(pending)}
      BY <2>0, <2>2, <3>1 DEF StartNext, Holding, LimiterTypeOK
    <3>3. Gate!Cardinality(Holding) < limit
      BY <2>0, <2>2 DEF StartNext, SlotFree, SlotAccounting, Gate!Cardinality, Cardinality
    <3>4. Gate!Admit
      BY <2>2, <3>2, <3>3 DEF StartNext, Gate!Admit
    <3>5. QED
      BY <3>4 DEF Gate!GateNext
  <2>3. CASE RecheckDone
    BY <2>3 DEF RecheckDone, Holding
  <2>4. ASSUME NEW t \in Task, Settle(t) PROVE UNCHANGED Gate!gateVars
    <3>1. Holding' = Holding
      BY <2>0, <2>4 DEF Settle, Holding, LimiterTypeOK
    <3>2. QED
      BY <2>4, <3>1 DEF Settle
  <2>5. ASSUME NEW t \in Task, Release(t) PROVE Gate!Leave(t)
    <3>1. t \in Holding /\ Holding' = Holding \ {t}
      BY <2>0, <2>5 DEF Release, Holding, LimiterTypeOK
    <3>2. QED
      BY <2>5, <3>1 DEF Release, Gate!Leave
  <2>6. ASSUME NEW n \in Limit, SetLimit(n) PROVE Gate!ChangeLimit(n)
    BY <2>6 DEF SetLimit, Gate!ChangeLimit, Holding
  <2>7. CASE Clear
    <3>1. Holding' = Holding
      BY <2>0, <2>7 DEF Clear, Holding, LimiterTypeOK
    <3>2. Gate!Disperse
      BY <2>7, <3>1 DEF Clear, Gate!Disperse
    <3>3. QED
      BY <3>2 DEF Gate!GateNext
  <2>8. CASE UNCHANGED limiterVars
    BY <2>8 DEF limiterVars, Holding
  <2>9. QED
    BY <1>2, <2>1, <2>2, <2>3, <2>4, <2>5, <2>6, <2>7, <2>8 DEF LimiterNext, Gate!GateNext
<1>3. QED
  BY <1>1, <1>2, LimiterInvariant, PTL DEF LimiterSpec, KeepsTheGate, Gate!GateSpec

-----------------------------------------------------------------------------
(* "running them in scheduling order": no task overtakes another.  Only    *)
(* StartNext starts a task, the one in front, and moves the others up by   *)
(* one; distinctness rules out a second copy of the task it takes further  *)
(* back in the queue.  Schedule adds behind all that wait.                 *)
THEOREM StartsInOrder == LimiterSpec => FifoAdmission
<1> DEFINE Started(i) == slot'[pending[i]] = "running" => \A h \in 1 .. i - 1 : slot'[pending[h]] # "pending"
           Kept(i) == slot'[pending[i]] = "pending" =>
                        \E k \in 1 .. Len(pending') : k <= i /\ pending'[k] = pending[i]
           Order == \A i \in 1 .. Len(pending) :
             /\ slot'[pending[i]] = "running" => \A h \in 1 .. i - 1 : slot'[pending[h]] # "pending"
             /\ slot'[pending[i]] = "pending" =>
                  \E k \in 1 .. Len(pending') : k <= i /\ pending'[k] = pending[i]
<1>1. ASSUME LimiterInv, LimiterNext PROVE Order
  <2> SUFFICES ASSUME NEW i \in 1 .. Len(pending)
               PROVE  Started(i) /\ Kept(i)
    OBVIOUS
  <2>1. /\ LimiterTypeOK /\ QueueDistinct /\ QueueWaits
        /\ pending \in Seq(Task) /\ pending[i] \in Task /\ slot[pending[i]] = "pending"
        /\ Len(pending) \in Nat
    BY <1>1, QueueByElement, ElementOfSeq, LenProperties DEF LimiterInv, LimiterTypeOK, QueueWaits
  <2>2. CASE StartNext
    <3>1. /\ pending[1] = Head(pending) /\ Len(pending') = Len(pending) - 1
          /\ \A k \in 1 .. Len(pending) - 1 : pending'[k] = pending[k + 1]
      BY <2>1, <2>2, HeadTailProperties, EmptySeq DEF StartNext
    <3>2. CASE i = 1
      BY <2>1, <2>2, <3>1, <3>2 DEF StartNext, LimiterTypeOK
    <3>3. CASE i # 1
      <4>1. pending[i] # Head(pending)
        BY <2>1, <3>1, <3>3 DEF QueueDistinct
      <4>2. slot'[pending[i]] = "pending"
        BY <2>1, <2>2, <4>1 DEF StartNext, LimiterTypeOK
      <4>3. i - 1 \in 1 .. Len(pending') /\ pending'[i - 1] = pending[i]
        BY <2>1, <3>1, <3>3
      <4>4. QED
        BY <4>2, <4>3
    <3>4. QED
      BY <3>2, <3>3
  <2>3. CASE ~StartNext
    <3>1. Started(i)
      BY <1>1, <2>1, <2>3 DEF LimiterNext, Schedule, RecheckDone, Settle, Release, SetLimit, Clear,
                              LimiterTypeOK
    <3>2. ASSUME UNCHANGED pending PROVE Kept(i)
      BY <2>1, <3>2
    <3>3. ASSUME Clear PROVE Kept(i)
      BY <2>1, <3>3 DEF Clear
    <3>4. ASSUME NEW t \in Task, Schedule(t) PROVE Kept(i)
      <4>1. /\ Len(pending') = Len(pending) + 1 /\ i \in 1 .. Len(pending')
            /\ pending'[i] = pending[i]
        BY <2>1, <3>4, AppendProperties DEF Schedule, Enqueue
      <4>2. QED
        BY <4>1
    <3>5. QED
      BY <1>1, <2>3, <3>1, <3>2, <3>3, <3>4 DEF LimiterNext, RecheckDone, Settle, Release, SetLimit
  <2>4. QED
    BY <2>2, <2>3
<1>2. ASSUME LimiterInv, [LimiterNext]_limiterVars PROVE [Order]_limiterVars
  BY <1>1, <1>2
<1>3. QED
  BY <1>2, LimiterInvariant, PTL DEF LimiterSpec, FifoAdmission

(* A lowered limit preempts nothing, and while more slots are in use than  *)
(* it allows no step adds one.                                             *)
THEOREM LoweredLimitDrains == LimiterSpec => OverLimitOnlyDrains
<1>1. ASSUME LimiterInv, [LimiterNext]_limiterVars PROVE [active >= limit => active' <= active]_limiterVars
  <2>1. active \in Nat /\ limit \in Nat
    BY <1>1, LimitAssumption DEF LimiterInv, LimiterTypeOK
  <2>2. CASE LimiterNext
    BY <2>1, <2>2 DEF LimiterNext, Schedule, StartNext, SlotFree, RecheckDone, Settle, Release,
                      SetLimit, Clear
  <2>3. QED
    BY <1>1, <2>2
<1>2. QED
  BY <1>1, LimiterInvariant, PTL DEF LimiterSpec, OverLimitOnlyDrains
=============================================================================
