----------------------- MODULE SubagentLifecycleProofs -----------------------
(***************************************************************************)
(* The safety of the run lifecycle, for every number of agents and resumes *)
(* and every set of positive limits. Parts 1 and 2 hold whatever the       *)
(* surroundings do, that is, for every value of Rash; the others say which *)
(* moments the surroundings have to avoid.                                 *)
(*                                                                         *)
(* 1. The manager drives the limiter as the limiter expects: Spec          *)
(*    implements LimiterSpec, so what ConcurrencyLimiterProofs shows of    *)
(*    the limiter holds of it here.                                        *)
(* 2. LifeInv, inductive given 1, relates a run's status to its fiber, its *)
(*    slot, its reports and the agent's current run.                       *)
(* 3. QueueInv keeps a queued run's thunk in the limiter, as long as no    *)
(*    consumer calls the manager from inside abortAll(); OneBody keeps a   *)
(*    session to one loop, as long as nobody resumes an agent whose        *)
(*    stopped run has not returned.                                        *)
(* 4. HeldInv and ReachInv, with Rash = {}: no workspace goes from under a *)
(*    loop, and none is left where nobody can reach it.                    *)
(***************************************************************************)
EXTENDS SubagentLifecycle, FiniteSetTheorems, SequenceTheorems, TLAPS

LimiterFacts == INSTANCE ConcurrencyLimiterProofs WITH Task <- Run

CurrentTyped == current \in [Agent -> 0 .. MaxResumes + 1]

(* What holds of each run, beyond its types: a queued run has not begun, a *)
(* running one is under way, and the first run of an agent that has been   *)
(* given a session or resumed has begun.  The last is why a thunk of the   *)
(* first run that asks the agent whether to start asks about itself.       *)
RunInv(r) ==
  /\ status[r] = "unborn" <=> r[2] > current[r[1]]
  /\ Active(r) => r[2] = current[r[1]]
  /\ finished[r] = IF Terminal(r) /\ ~InProgress(r) THEN 1 ELSE 0
  /\ InProgress(r) => status[r] \in {"running", "stopped"}
  /\ status[r] = "running" => InProgress(r)
  /\ status[r] \in {"unborn", "queued"} => fiber[r] = "none"
  /\ slot[r] = "pending" => fiber[r] = "none" /\ status[r] # "unborn"
  /\ r[2] = 1 /\ (attached[r[1]] \/ current[r[1]] > 1) => fiber[r] # "none"

LifeTypes ==
  /\ registered \subseteq Agent
  /\ closed \in BOOLEAN
  /\ CurrentTyped
  /\ status \in [Run -> Statuses]
  /\ fiber \in [Run -> Fibers]
  /\ finished \in [Run -> Nat]
  /\ session \in [Agent -> {"none", "live", "disposed"}]
  /\ attached \in [Agent -> BOOLEAN]
  /\ workspace \in [Agent -> {"none", "prepared", "disposed"}]
  /\ emitting \in BOOLEAN
  /\ visiting \in 0 .. NumAgents + 1
  /\ closing \in BOOLEAN

(* The inductive invariant. *)
LifeInv == LifeTypes /\ \A r \in Run : RunInv(r)

(* What part 1 gives the induction of part 2. *)
LimiterSound == Limiter!LimiterTypeOK /\ LimiterIntact

-----------------------------------------------------------------------------
(* Runs are pairs of an agent and an index. *)
LEMMA RunParts ==
  ASSUME NEW r \in Run
  PROVE  r[1] \in Agent /\ r[2] \in 1 .. MaxResumes + 1 /\ r = <<r[1], r[2]>>
  BY DEF Run

(* A pair of an agent and an index is a run.                               *)
LEMMA RunMade ==
  ASSUME NEW a \in Agent, NEW k \in 1 .. MaxResumes + 1
  PROVE  <<a, k>> \in Run /\ <<a, k>>[1] = a /\ <<a, k>>[2] = k
  BY DEF Run

(* The limiter's tasks are finitely many.                                  *)
LEMMA RunsFinite == IsFiniteSet(Run)
<1>1. IsFiniteSet(Agent) /\ IsFiniteSet(1 .. MaxResumes + 1)
  BY FS_Interval, NumAgentsAssumption, MaxResumesAssumption DEF Agent
<1>2. QED
  BY <1>1, FS_Product DEF Run

-----------------------------------------------------------------------------
(* The manager's steps are the limiter's steps. *)

(* A resume never numbers a run beyond the last one.                       *)
LEMMA CurrentStep == CurrentTyped /\ [Next]_vars => CurrentTyped'
<1> SUFFICES ASSUME CurrentTyped, [Next]_vars PROVE CurrentTyped'
  OBVIOUS
<1>0. MaxResumes \in Nat
  BY MaxResumesAssumption
<1>1. ASSUME NEW a \in Agent, SpawnQueued(a) \/ SpawnNow(a) \/ SpawnCancelled(a)
      PROVE  CurrentTyped'
  BY <1>0, <1>1 DEF CurrentTyped, SpawnQueued, SpawnNow, SpawnCancelled
<1>2. ASSUME NEW a \in Agent, ResumeQueued(a) \/ ResumeNow(a)
      PROVE  CurrentTyped'
  <2>1. current[a] + 1 \in 0 .. MaxResumes + 1 /\ current' = [current EXCEPT ![a] = @ + 1]
    BY <1>0, <1>2 DEF CurrentTyped, ResumeQueued, ResumeNow, ResumeAllowed
  <2>2. QED
    BY <2>1 DEF CurrentTyped
<1>3. CASE UNCHANGED current
  BY <1>3 DEF CurrentTyped
<1>4. QED
  <2>1. CASE UNCHANGED vars
    BY <1>3, <2>1 DEF vars, runVars
  <2>2. CASE StartQueued \/ RecheckReturns \/ ObserversReturn \/ AbortAllVisits \/ AbortAllReturns \/ ClearCompleted
    BY <1>3, <2>2 DEF StartQueued, RecheckReturns, ObserversReturn, AbortAllVisits, AbortAllReturns,
                      ClearCompleted, runVars
  <2>3. ASSUME NEW r \in Run, SlotSettles(r) \/ SlotReleased(r) \/ RunStep(r) PROVE UNCHANGED current
    BY <2>3 DEF LoopEnteredAs, InTurnLoop, SlotSettles, SlotReleased, RunStep, Prepared, SessionCreated, LoopReturns, BodyThrows,
                Fail, runVars
  <2>4. ASSUME NEW a \in Agent, Abort(a) \/ Sweep(a) PROVE UNCHANGED current
    BY <2>4 DEF Abort, Sweep, runVars
  <2>5. ASSUME NEW n \in Limit, ChangeLimit(n) PROVE UNCHANGED current
    BY <2>5 DEF ChangeLimit, runVars
  <2>6. ASSUME NEW shutdown \in BOOLEAN, AbortAll(shutdown) PROVE UNCHANGED current
    BY <2>6 DEF AbortAll, runVars
  <2>7. QED
    BY <1>1, <1>2, <1>3, <2>1, <2>2, <2>3, <2>4, <2>5, <2>6 DEF Next

(* Each step of the manager is one of the limiter, or leaves it alone.     *)
LEMMA LimiterStep == CurrentTyped /\ [Next]_vars => [Limiter!LimiterNext]_limiterVars
<1> SUFFICES ASSUME CurrentTyped, [Next]_vars PROVE [Limiter!LimiterNext]_limiterVars
  OBVIOUS
<1>0. MaxResumes \in Nat
  BY MaxResumesAssumption
<1> USE DEF limiterVars
<1>1. ASSUME NEW a \in Agent, SpawnQueued(a) \/ SpawnNow(a) \/ SpawnCancelled(a)
      PROVE  [Limiter!LimiterNext]_limiterVars
  <2>1. <<a, 1>> \in Run
    BY <1>0, RunMade
  <2>2. QED
    BY <1>1, <2>1 DEF SpawnQueued, SpawnNow, SpawnCancelled, Limiter!LimiterNext
<1>2. ASSUME NEW a \in Agent, ResumeQueued(a) \/ ResumeNow(a)
      PROVE  [Limiter!LimiterNext]_limiterVars
  <2>1. current[a] + 1 \in 1 .. MaxResumes + 1
    BY <1>0, <1>2 DEF CurrentTyped, ResumeQueued, ResumeNow, ResumeAllowed
  <2>2. <<a, current[a] + 1>> \in Run
    BY <2>1, RunMade
  <2>3. QED
    BY <1>2, <2>2 DEF ResumeQueued, ResumeNow, Limiter!LimiterNext
<1>3. CASE StartQueued \/ RecheckReturns \/ AbortAllReturns
  BY <1>3 DEF StartQueued, RecheckReturns, AbortAllReturns, Limiter!LimiterNext
<1>4. ASSUME NEW r \in Run, SlotSettles(r) \/ SlotReleased(r)
      PROVE  [Limiter!LimiterNext]_limiterVars
  BY <1>4 DEF SlotSettles, SlotReleased, Limiter!LimiterNext
<1>5. ASSUME NEW n \in Limit, ChangeLimit(n)
      PROVE  [Limiter!LimiterNext]_limiterVars
  BY <1>5 DEF ChangeLimit, Limiter!LimiterNext
<1>6. ASSUME NEW r \in Run, RunStep(r) PROVE UNCHANGED limiterVars
  BY <1>6 DEF LoopEnteredAs, InTurnLoop, RunStep, Prepared, SessionCreated, LoopReturns, BodyThrows, Fail
<1>7. ASSUME NEW a \in Agent, Abort(a) \/ Sweep(a) PROVE UNCHANGED limiterVars
  BY <1>7 DEF Abort, Sweep
<1>8. ASSUME NEW shutdown \in BOOLEAN, AbortAll(shutdown) PROVE UNCHANGED limiterVars
  BY <1>8 DEF AbortAll
<1>9. CASE ObserversReturn \/ AbortAllVisits \/ ClearCompleted \/ UNCHANGED vars
  BY <1>9 DEF ObserversReturn, AbortAllVisits, ClearCompleted, vars
<1>10. QED
  BY <1>1, <1>2, <1>3, <1>4, <1>5, <1>6, <1>7, <1>8, <1>9 DEF Next

(* The manager implements the limiter's specification: whatever runs do,   *)
(* they use the limiter only by its own operations.                        *)
THEOREM LimiterImplemented == Spec => Limiter!LimiterSpec
<1>1. Init => CurrentTyped /\ Limiter!LimiterInit
  BY MaxResumesAssumption DEF Init, CurrentTyped
<1>2. CurrentTyped /\ [Next]_vars => CurrentTyped'
  BY CurrentStep
<1>3. CurrentTyped /\ [Next]_vars => [Limiter!LimiterNext]_(Limiter!limiterVars)
  BY LimiterStep DEF limiterVars, Limiter!limiterVars
<1>4. QED
  BY <1>1, <1>2, <1>3, PTL DEF Spec, Limiter!LimiterSpec

(* Its counter, queue and wakeups stay right with runs for tasks. *)
THEOREM LimiterStaysSound == Spec => []LimiterSound
<1>1. LimiterFacts!TaskAssumption
  BY RunsFinite DEF LimiterFacts!TaskAssumption, LimiterFacts!IsFiniteSet, IsFiniteSet
<1>2. LimiterFacts!LimitAssumption
  BY LifecycleLimitAssumption DEF LimiterFacts!LimitAssumption
<1>3. LimiterFacts!LimiterSpec => []LimiterFacts!LimiterInv
  BY <1>1, <1>2, LimiterFacts!LimiterInvariant, PTL
<1>4. Limiter!LimiterInit => LimiterFacts!LimiterInit
  BY DEF Limiter!LimiterInit, LimiterFacts!LimiterInit
<1>5. [Limiter!LimiterNext]_(Limiter!limiterVars) => [LimiterFacts!LimiterNext]_(LimiterFacts!limiterVars)
  <2> USE DEF Limiter!limiterVars, LimiterFacts!limiterVars, Limiter!MayCall, LimiterFacts!MayCall,
              Limiter!Quiet, LimiterFacts!Quiet, Limiter!SlotFree, LimiterFacts!SlotFree,
              Limiter!ResumedRecheck, LimiterFacts!ResumedRecheck
  <2>1. ASSUME NEW t \in Run PROVE Limiter!Schedule(t) => LimiterFacts!Schedule(t)
    BY DEF Limiter!Schedule, LimiterFacts!Schedule, Limiter!Enqueue, LimiterFacts!Enqueue
  <2>2. Limiter!StartNext => LimiterFacts!StartNext
    BY DEF Limiter!StartNext, LimiterFacts!StartNext
  <2>3. Limiter!RecheckDone => LimiterFacts!RecheckDone
    BY DEF Limiter!RecheckDone, LimiterFacts!RecheckDone
  <2>4. ASSUME NEW t \in Run PROVE Limiter!Settle(t) => LimiterFacts!Settle(t)
    BY DEF Limiter!Settle, LimiterFacts!Settle
  <2>5. ASSUME NEW t \in Run PROVE Limiter!Release(t) => LimiterFacts!Release(t)
    BY DEF Limiter!Release, LimiterFacts!Release
  <2>6. ASSUME NEW n \in Limit PROVE Limiter!SetLimit(n) => LimiterFacts!SetLimit(n)
    BY DEF Limiter!SetLimit, LimiterFacts!SetLimit
  <2>7. Limiter!Clear => LimiterFacts!Clear
    BY DEF Limiter!Clear, LimiterFacts!Clear
  <2>8. QED
    BY <2>1, <2>2, <2>3, <2>4, <2>5, <2>6, <2>7 DEF Limiter!LimiterNext, LimiterFacts!LimiterNext
<1>6. LimiterFacts!LimiterInv => LimiterSound
  BY DEF LimiterFacts!LimiterInv, LimiterFacts!LimiterTypeOK, LimiterFacts!SlotAccounting,
         LimiterFacts!QueueAccounting, LimiterFacts!NoIdleSlot, LimiterFacts!SlotState,
         LimiterFacts!RecheckState, LimiterFacts!Holding, LimiterFacts!Waiting, LimiterFacts!Quiet,
         LimiterFacts!Cardinality,
         LimiterSound, LimiterIntact, Limiter!LimiterTypeOK, Limiter!SlotAccounting,
         Limiter!QueueAccounting, Limiter!NoIdleSlot, Limiter!SlotState,
         Limiter!RecheckState, Limiter!Holding, Limiter!Waiting, Limiter!Quiet, Limiter!Cardinality
<1>7. QED
  BY <1>3, <1>4, <1>5, <1>6, LimiterImplemented, PTL
     DEF Limiter!LimiterSpec, LimiterFacts!LimiterSpec

-----------------------------------------------------------------------------
(* What a limiter step does to the queue, run by run. *)

(* The head of the queue is a run whose slot is pending.                   *)
LEMMA HeadWaits ==
  ASSUME LimiterSound, pending # <<>>
  PROVE  Head(pending) \in Run /\ slot[Head(pending)] = "pending"
<1>1. pending \in Seq(Run)
  BY DEF LimiterSound, Limiter!LimiterTypeOK
<1>2. Head(pending) = pending[1] /\ 1 \in 1 .. Len(pending)
  BY <1>1
<1>3. pending[1] \in Limiter!Waiting
  BY <1>2 DEF LimiterSound, LimiterIntact, Limiter!QueueAccounting
<1>4. QED
  BY <1>2, <1>3 DEF Limiter!Waiting

-----------------------------------------------------------------------------
(* LifeInv holds at first, and every step preserves it. *)

(* Nothing has been spawned: every run is unborn.                          *)
LEMMA LifeInitially == Init => LifeInv
<1> SUFFICES ASSUME Init PROVE LifeInv
  OBVIOUS
<1>1. LifeTypes
  <2>1. 0 \in 0 .. NumAgents + 1 /\ 0 \in 0 .. MaxResumes + 1 /\ 0 \in Nat
    BY NumAgentsAssumption, MaxResumesAssumption
  <2>2. QED
    BY <2>1 DEF Init, LifeTypes, CurrentTyped, Statuses, Fibers
<1>2. ASSUME NEW r \in Run PROVE RunInv(r)
  <2>1. r[1] \in Agent /\ r[2] \in 1 .. MaxResumes + 1
    BY RunParts
  <2>2. QED
    BY <2>1, MaxResumesAssumption
       DEF Init, RunInv, Active, Terminal, InProgress, Limiter!LimiterInit
<1>3. QED
  BY <1>1, <1>2 DEF LifeInv

(* Stopping an agent touches at most its current run. *)
LEMMA StopEffect ==
  ASSUME CurrentTyped, NEW a \in Agent, StopCurrent(a)
  PROVE  \/ UNCHANGED <<status, finished, emitting>>
         \/ /\ Cur(a) \in Run /\ Active(Cur(a))
            /\ status' = [status EXCEPT ![Cur(a)] = "stopped"]
            /\ \/ status[Cur(a)] = "queued" /\ Report(Cur(a))
               \/ status[Cur(a)] # "queued" /\ UNCHANGED <<finished, emitting>>
<1>1. CASE ~AgentActive(a)
  BY <1>1 DEF StopCurrent
<1>2. CASE AgentActive(a)
  <2>1. Cur(a) \in Run
    BY <1>2, RunMade, MaxResumesAssumption DEF AgentActive, CurrentTyped, Cur
  <2>2. QED
    BY <1>2, <2>1 DEF StopCurrent, AgentActive
<1>3. QED
  BY <1>1, <1>2

(* Every step keeps the types, the number of reports apart.                *)
LEMMA TypesStep == LifeInv /\ LimiterSound /\ [Next]_vars => LifeTypes'
<1> SUFFICES ASSUME LifeInv, LimiterSound, [Next]_vars PROVE LifeTypes'
  OBVIOUS
<1>0. MaxResumes \in Nat /\ NumAgents \in Nat /\ CurrentTyped'
  BY MaxResumesAssumption, NumAgentsAssumption, CurrentStep DEF LifeInv, LifeTypes
<1> USE <1>0 DEF LifeInv, LifeTypes, Statuses, Fibers
<1>1. ASSUME NEW a \in Agent, SpawnQueued(a) \/ SpawnNow(a) \/ SpawnCancelled(a)
      PROVE  LifeTypes'
  <2>1. <<a, 1>> \in Run
    BY RunMade
  <2>2. CASE SpawnQueued(a)
    BY <2>1, <2>2 DEF SpawnQueued, resourceVars, stackVars
  <2>3. CASE SpawnNow(a)
    BY <2>1, <2>3 DEF SpawnNow, BeginInitial, resourceVars, stackVars
  <2>4. CASE SpawnCancelled(a)
    BY <2>1, <2>4 DEF SpawnCancelled, Report, resourceVars
  <2>5. QED
    BY <1>1, <2>2, <2>3, <2>4
<1>2. ASSUME NEW a \in Agent, ResumeQueued(a) \/ ResumeNow(a)
      PROVE  LifeTypes'
  <2>1. <<a, current[a] + 1>> \in Run
    BY <1>2, RunMade DEF CurrentTyped, ResumeQueued, ResumeNow, ResumeAllowed
  <2>2. QED
    BY <1>2, <2>1 DEF LoopEnteredAs, ResumeQueued, ResumeNow, BeginResumed, managerVars, resourceVars, stackVars
<1>3. CASE StartQueued
  <2>1. Head(pending) \in Run
    BY <1>3, HeadWaits DEF StartQueued, Limiter!StartNext
  <2>2. QED
    BY <1>3, <2>1 DEF LoopEnteredAs, StartQueued, BeginInitial, BeginResumed, managerVars, resourceVars, stackVars
<1>4. CASE RecheckReturns \/ UNCHANGED vars \/ ObserversReturn
  BY <1>4 DEF RecheckReturns, ObserversReturn, vars, managerVars, runVars, resourceVars, stackVars
<1>5. ASSUME NEW r \in Run, SlotSettles(r) \/ SlotReleased(r) PROVE LifeTypes'
  BY <1>5 DEF SlotSettles, SlotReleased, managerVars, runVars, resourceVars, stackVars
<1>6. ASSUME NEW n \in Limit, ChangeLimit(n) PROVE LifeTypes'
  BY <1>6 DEF ChangeLimit, managerVars, runVars, resourceVars, stackVars
<1>7. ASSUME NEW r \in Run, RunStep(r) PROVE LifeTypes'
  <2>1. r[1] \in Agent
    BY RunParts
  <2>2. CASE Prepared(r)
    BY <2>1, <2>2 DEF Prepared, managerVars, stackVars
  <2>3. CASE SessionCreated(r)
    BY <2>1, <2>3 DEF LoopEnteredAs, SessionCreated, managerVars, stackVars
  <2>4. ASSUME NEW asked \in BOOLEAN, LoopReturns(r, asked) PROVE LifeTypes'
    BY <2>1, <2>4 DEF InTurnLoop, LoopReturns, Report, Transition, TornDown, managerVars
  <2>5. CASE BodyThrows(r)
    BY <2>1, <2>5 DEF BodyThrows, Fail, Report, Transition, TornDown, managerVars
  <2>6. QED
    BY <1>7, <2>2, <2>3, <2>4, <2>5 DEF RunStep
<1>8. ASSUME NEW a \in Agent, StopCurrent(a) \/ UNCHANGED <<status, finished, emitting>>
      PROVE  /\ status' \in [Run -> Statuses]
             /\ finished' \in [Run -> Nat]
             /\ emitting' \in BOOLEAN
  <2>1. CASE UNCHANGED <<status, finished, emitting>>
    BY <2>1
  <2>2. CASE ~UNCHANGED <<status, finished, emitting>>
    <3>1. /\ Cur(a) \in Run
          /\ status' = [status EXCEPT ![Cur(a)] = "stopped"]
          /\ Report(Cur(a)) \/ UNCHANGED <<finished, emitting>>
      BY <1>8, <2>2, StopEffect
    <3>2. CASE Report(Cur(a))
      BY <3>1, <3>2 DEF Report
    <3>3. CASE UNCHANGED <<finished, emitting>>
      BY <3>1, <3>3
    <3>4. QED
      BY <3>1, <3>2, <3>3
  <2>3. QED
    BY <2>1, <2>2
<1>9. ASSUME NEW a \in Agent, Abort(a) PROVE LifeTypes'
  BY <1>8, <1>9 DEF Abort, managerVars, resourceVars
<1>10. CASE AbortAllVisits
  <2>1. /\ visiting \in Agent /\ visiting' \in 0 .. NumAgents + 1
        /\ StopCurrent(visiting) \/ UNCHANGED <<status, finished, emitting>>
    BY <1>10 DEF AbortAllVisits, Agent
  <2>2. QED
    BY <1>8, <1>10, <2>1 DEF AbortAllVisits, managerVars, resourceVars
<1>11. ASSUME NEW gone \in SUBSET Agent, TearDown(gone)
       PROVE  /\ workspace' \in [Agent -> {"none", "prepared", "disposed"}]
              /\ session' \in [Agent -> {"none", "live", "disposed"}]
  BY <1>11 DEF TearDown, TornDown
<1>12. ASSUME NEW a \in Agent, Sweep(a) PROVE LifeTypes'
  <2>1. {a} \in SUBSET Agent
    OBVIOUS
  <2>2. QED
    BY <1>11, <1>12, <2>1 DEF Sweep, managerVars, runVars, stackVars
<1>13. CASE ClearCompleted
  <2>1. {a \in registered : ~Kept(a)} \in SUBSET Agent
    OBVIOUS
  <2>2. QED
    BY <1>11, <1>13, <2>1 DEF ClearCompleted, runVars, stackVars
<1>14. CASE AbortAllReturns
  <2>1. registered \in SUBSET Agent /\ 0 \in 0 .. NumAgents + 1
    OBVIOUS
  <2>2. /\ workspace' \in [Agent -> {"none", "prepared", "disposed"}]
        /\ session' \in [Agent -> {"none", "live", "disposed"}]
        /\ registered' \subseteq Agent
        /\ closed' \in BOOLEAN
    BY <1>11, <1>14, <2>1 DEF AbortAllReturns
  <2>3. QED
    BY <1>14, <2>1, <2>2 DEF AbortAllReturns, runVars
<1>15. ASSUME NEW shutdown \in BOOLEAN, AbortAll(shutdown) PROVE LifeTypes'
  <2>1. visiting' \in 0 .. NumAgents + 1
    BY <1>15 DEF AbortAll
  <2>2. QED
    BY <1>15, <2>1 DEF AbortAll, managerVars, runVars, resourceVars
<1>16. QED
  BY <1>1, <1>2, <1>3, <1>4, <1>5, <1>6, <1>7, <1>9, <1>10, <1>12, <1>13, <1>14, <1>15 DEF Next

-----------------------------------------------------------------------------
(* One run's share of LifeInv, action by action.  A step disturbs one run  *)
(* s, or the agent s belongs to; `q` is any run.                           *)

(* No limiter operation but Schedule puts a run on the queue. *)
LEMMA PendingStays ==
  ASSUME LimiterSound, NEW q \in Run, slot'[q] = "pending",
         \/ Limiter!StartNext \/ Limiter!RecheckDone \/ Limiter!Clear
         \/ \E t \in Run : Limiter!Settle(t) \/ Limiter!Release(t)
         \/ \E n \in Limit : Limiter!SetLimit(n)
         \/ UNCHANGED limiterVars
  PROVE  slot[q] = "pending"
  BY DEF LimiterSound, Limiter!LimiterTypeOK, Limiter!StartNext, Limiter!RecheckDone, Limiter!Clear,
         Limiter!Settle, Limiter!Release, Limiter!SetLimit, limiterVars

(* A first run is born into an agent that has had none.                    *)
LEMMA SpawnStep ==
  ASSUME LifeInv, LimiterSound, NEW a \in Agent, NEW q \in Run,
         SpawnQueued(a) \/ SpawnNow(a) \/ SpawnCancelled(a)
  PROVE  RunInv(q)'
<1> DEFINE s == <<a, 1>>
<1>1. s \in Run /\ s[1] = a /\ s[2] = 1 /\ current[a] = 0
  BY RunMade, MaxResumesAssumption DEF SpawnQueued, SpawnNow, SpawnCancelled, NextToSpawn
<1>2. q[1] \in Agent /\ q[2] \in 1 .. MaxResumes + 1 /\ q = <<q[1], q[2]>> /\ MaxResumes \in Nat
  BY RunParts, MaxResumesAssumption
<1>3. RunInv(q) /\ RunInv(s)
  BY <1>1 DEF LifeInv
<1>4. status[s] = "unborn" /\ fiber[s] = "none" /\ finished[s] = 0 /\ ~attached[a]
  BY <1>1, <1>3 DEF RunInv, Terminal
<1>5. current' = [current EXCEPT ![a] = 1] /\ attached' = attached
  BY DEF SpawnQueued, SpawnNow, SpawnCancelled, resourceVars
<1>6. CASE q = s
  <2>1. CASE SpawnQueued(a)
    BY <1>1, <1>2, <1>3, <1>4, <1>5, <1>6, <2>1
       DEF SpawnQueued, LifeInv, LifeTypes, CurrentTyped, RunInv, Active, Terminal, InProgress
  <2>2. CASE SpawnNow(a)
    BY <1>1, <1>2, <1>3, <1>4, <1>5, <1>6, <2>2
       DEF SpawnNow, BeginInitial, LifeInv, LifeTypes, CurrentTyped, RunInv, Active, Terminal, InProgress,
           limiterVars
  <2>3. CASE SpawnCancelled(a)
    BY <1>1, <1>2, <1>3, <1>4, <1>5, <1>6, <2>3
       DEF SpawnCancelled, Report, LifeInv, LifeTypes, CurrentTyped, RunInv, Active, Terminal, InProgress,
           limiterVars
  <2>4. QED
    BY <2>1, <2>2, <2>3
<1>7. CASE q # s
  <2>1. /\ status'[q] = status[q] /\ fiber'[q] = fiber[q] /\ finished'[q] = finished[q]
        /\ slot'[q] = slot[q]
    BY <1>1, <1>7 DEF SpawnQueued, SpawnNow, SpawnCancelled, BeginInitial, Report, Limiter!Schedule,
                      LifeInv, LifeTypes, LimiterSound, Limiter!LimiterTypeOK, limiterVars
  <2>2. current'[q[1]] = current[q[1]] \/ (q[1] = a /\ q[2] > 1 /\ current'[a] = 1)
    BY <1>1, <1>2, <1>5, <1>7 DEF LifeInv, LifeTypes, CurrentTyped
  <2>3. QED
    BY <1>1, <1>2, <1>3, <1>5, <2>1, <2>2 DEF RunInv, Active, Terminal, InProgress
<1>8. QED
  BY <1>6, <1>7

(* A resume is refused while the current run is active, and needs a session, *)
(* so the run it replaces has ended and the first run has begun.           *)
LEMMA ResumeStep ==
  ASSUME LifeInv, LimiterSound, NEW a \in Agent, NEW q \in Run,
         ResumeQueued(a) \/ ResumeNow(a)
  PROVE  RunInv(q)'
<1> DEFINE s == <<a, current[a] + 1>>
           first == <<a, 1>>
           old == Cur(a)
<1>0. MaxResumes \in Nat /\ current[a] \in 0 .. MaxResumes /\ attached[a] /\ Resumable(a)
  BY MaxResumesAssumption DEF LifeInv, LifeTypes, CurrentTyped, ResumeQueued, ResumeNow, ResumeAllowed, Resumable
<1>1. /\ s \in Run /\ s[1] = a /\ s[2] = current[a] + 1
      /\ first \in Run /\ first[1] = a /\ first[2] = 1
  BY <1>0, RunMade
<1>2. q[1] \in Agent /\ q[2] \in 1 .. MaxResumes + 1 /\ q = <<q[1], q[2]>>
  BY RunParts
<1>3. RunInv(q) /\ RunInv(s) /\ RunInv(first)
  BY <1>1 DEF LifeInv
<1>4. current[a] >= 1
  BY <1>0, <1>1, <1>3 DEF RunInv
<1>5. old \in Run /\ old[1] = a /\ old[2] = current[a] /\ RunInv(old)
  <2>1. old \in Run /\ old[1] = a /\ old[2] = current[a]
    BY <1>0, <1>4, RunMade DEF Cur
  <2>2. QED
    BY <2>1 DEF LifeInv
<1>6. ~Active(old)
  BY <1>0, <1>1, <1>3, <1>4, <1>5 DEF Resumable, RunInv, Active, Cur
<1>7. status[s] = "unborn" /\ fiber[s] = "none" /\ finished[s] = 0 /\ fiber[first] # "none" /\ s # first
  BY <1>0, <1>1, <1>3, <1>4 DEF RunInv, Terminal
<1>8. current' = [current EXCEPT ![a] = @ + 1] /\ attached' = attached
  BY DEF ResumeQueued, ResumeNow, resourceVars
<1>9. CASE q = s
  <2>1. CASE ResumeQueued(a)
    BY <1>0, <1>1, <1>2, <1>3, <1>4, <1>7, <1>8, <1>9, <2>1
       DEF ResumeQueued, LifeInv, LifeTypes, CurrentTyped, RunInv, Active, Terminal, InProgress
  <2>2. CASE ResumeNow(a)
    BY <1>0, <1>1, <1>2, <1>3, <1>4, <1>7, <1>8, <1>9, <2>2
       DEF LoopEnteredAs, ResumeNow, BeginResumed, LifeInv, LifeTypes, CurrentTyped, RunInv, Active, Terminal, InProgress,
           limiterVars
  <2>3. QED
    BY <2>1, <2>2
<1>10. CASE q # s
  <2>1. /\ status'[q] = status[q] /\ fiber'[q] = fiber[q] /\ finished'[q] = finished[q]
        /\ slot'[q] = slot[q]
    BY <1>1, <1>10 DEF LoopEnteredAs, ResumeQueued, ResumeNow, BeginResumed, Limiter!Schedule,
                       LifeInv, LifeTypes, LimiterSound, Limiter!LimiterTypeOK, limiterVars
  <2>2. CASE q[1] # a
    <3>1. current'[q[1]] = current[q[1]]
      BY <1>2, <1>8, <2>2 DEF LifeInv, LifeTypes, CurrentTyped
    <3>2. QED
      BY <1>3, <1>8, <2>1, <3>1 DEF RunInv, Active, Terminal, InProgress
  <2>3. CASE q[1] = a
    <3>1. current'[a] = current[a] + 1 /\ q[2] # current[a] + 1
      BY <1>2, <1>8, <1>10, <2>3 DEF LifeInv, LifeTypes, CurrentTyped
    <3>2. ~Active(q)
      BY <1>2, <1>3, <1>6, <2>3 DEF RunInv, Cur
    <3>3. q[2] = 1 => q = first
      BY <1>2, <2>3
    <3>4. QED
      BY <1>0, <1>1, <1>2, <1>3, <1>7, <1>8, <2>1, <2>3, <3>1, <3>2, <3>3
         DEF RunInv, Active, Terminal, InProgress
  <2>4. QED
    BY <2>2, <2>3
<1>11. QED
  BY <1>9, <1>10

(* A thunk that reaches the head of the queue belongs to a run that has    *)
(* not begun; guardedRun() and the resume's thunk let it start only while  *)
(* it is still queued.                                                     *)
LEMMA HeadStarts ==
  ASSUME LifeInv, LimiterSound, pending # <<>>
  PROVE  LET r == Head(pending) IN
         /\ r \in Run /\ slot[r] = "pending" /\ fiber[r] = "none"
         /\ MayStart(r) => status[r] = "queued"
         /\ ~MayStart(r) => Terminal(r)
<1> DEFINE r == Head(pending)
<1>1. r \in Run /\ slot[r] = "pending"
  BY HeadWaits
<1>2. r[1] \in Agent /\ r[2] \in 1 .. MaxResumes + 1 /\ r = <<r[1], r[2]>>
  BY <1>1, RunParts
<1>3. RunInv(r) /\ status[r] \in Statuses
  BY <1>1 DEF LifeInv, LifeTypes
<1>4. fiber[r] = "none" /\ status[r] # "unborn" /\ status[r] # "running"
  BY <1>1, <1>3 DEF RunInv, InProgress
<1>5. r[2] = 1 => r = Cur(r[1])
  <2>1. r[2] = 1 => current[r[1]] = 1
    BY <1>2, <1>3, <1>4, MaxResumesAssumption DEF RunInv, LifeInv, LifeTypes, CurrentTyped
  <2>2. QED
    BY <1>2, <2>1 DEF Cur
<1>6. MayStart(r) <=> Active(r)
  BY <1>5 DEF MayStart
<1>7. QED
  BY <1>1, <1>3, <1>4, <1>6 DEF Active, Terminal, Statuses

(* recheck() starts the thunk at the head of the queue, or finds it stopped. *)
LEMMA StartStep ==
  ASSUME LifeInv, LimiterSound, NEW q \in Run, StartQueued
  PROVE  RunInv(q)'
<1> DEFINE r == Head(pending)
<1>1. /\ r \in Run /\ slot[r] = "pending" /\ fiber[r] = "none"
      /\ MayStart(r) => status[r] = "queued"
      /\ ~MayStart(r) => Terminal(r)
  BY HeadStarts DEF StartQueued, Limiter!StartNext
<1>2. r[1] \in Agent /\ q[1] \in Agent
  BY <1>1, RunParts
<1>3. RunInv(q) /\ RunInv(r)
  BY <1>1 DEF LifeInv
<1>4. /\ current' = current /\ attached' = attached /\ finished' = finished
      /\ slot'[r] = "running"
  BY <1>1 DEF StartQueued, Limiter!StartNext, resourceVars, LimiterSound, Limiter!LimiterTypeOK
<1>5. CASE q = r
  <2>1. CASE MayStart(r)
    <3>1. status'[r] \in {"running", "stopped"} /\ fiber'[r] \in {"preparing", "creating", "looping", "returning"}
          /\ (status'[r] = "running" \/ fiber'[r] = "returning")
      BY <1>1, <2>1 DEF StartQueued, BeginInitial, BeginResumed, LoopEnteredAs, LifeInv, LifeTypes
    <3>2. QED
      BY <1>1, <1>2, <1>3, <1>4, <1>5, <2>1, <3>1 DEF RunInv, Active, Terminal, InProgress
  <2>2. CASE ~MayStart(r)
    <3>1. status'[r] = status[r] /\ fiber'[r] = "over"
      BY <1>1, <2>2 DEF StartQueued, LifeInv, LifeTypes
    <3>2. QED
      BY <1>1, <1>2, <1>3, <1>4, <1>5, <2>2, <3>1 DEF RunInv, Active, Terminal, InProgress
  <2>3. QED
    BY <2>1, <2>2
<1>6. CASE q # r
  <2>1. status'[q] = status[q] /\ fiber'[q] = fiber[q] /\ slot'[q] = slot[q]
    BY <1>1, <1>6 DEF LoopEnteredAs, StartQueued, BeginInitial, BeginResumed, Limiter!StartNext,
                      LifeInv, LifeTypes, LimiterSound, Limiter!LimiterTypeOK
  <2>2. QED
    BY <1>3, <1>4, <2>1 DEF RunInv, Active, Terminal, InProgress
<1>7. QED
  BY <1>5, <1>6

(* prepare() and the session factory resolve in the middle of a run. *)
LEMMA ProgressStep ==
  ASSUME LifeInv, LimiterSound, NEW r \in Run, NEW q \in Run,
         Prepared(r) \/ SessionCreated(r)
  PROVE  RunInv(q)'
<1> DEFINE first == <<r[1], 1>>
<1>1. r[1] \in Agent /\ r[2] \in 1 .. MaxResumes + 1 /\ r = <<r[1], r[2]>> /\ MaxResumes \in Nat
  BY RunParts, MaxResumesAssumption
<1>2. q[1] \in Agent /\ q[2] \in 1 .. MaxResumes + 1 /\ q = <<q[1], q[2]>>
  BY RunParts
<1>3. first \in Run /\ first[1] = r[1] /\ first[2] = 1
  BY <1>1, RunMade
<1>4. RunInv(q) /\ RunInv(r) /\ RunInv(first)
  BY <1>3 DEF LifeInv
<1>5. /\ fiber[r] \in {"preparing", "creating"} /\ fiber'[r] \in {"creating", "looping", "returning"}
      /\ status' = status /\ finished' = finished /\ current' = current /\ slot' = slot
      /\ \A p \in Run : p # r => fiber'[p] = fiber[p]
  BY DEF Prepared, SessionCreated, LoopEnteredAs, LifeInv, LifeTypes, limiterVars
<1>6. fiber[first] # "none"
  <2>1. CASE r[2] = 1
    BY <1>1, <1>5, <2>1
  <2>2. CASE r[2] # 1
    BY <1>1, <1>3, <1>4, <1>5, <2>2 DEF RunInv, InProgress, LifeInv, LifeTypes, CurrentTyped
  <2>3. QED
    BY <2>1, <2>2
<1>7. attached'[q[1]] => attached[q[1]] \/ q[1] = r[1]
  BY <1>1, <1>2 DEF LoopEnteredAs, Prepared, SessionCreated, LifeInv, LifeTypes
<1>8. fiber'[q] = "none" <=> fiber[q] = "none"
  BY <1>5
<1>9. InProgress(q)' <=> InProgress(q)
  BY <1>5 DEF InProgress
<1>10. q[2] = 1 /\ q[1] = r[1] => q = first
  BY <1>2
<1>11. QED
  BY <1>4, <1>5, <1>6, <1>7, <1>8, <1>9, <1>10 DEF RunInv, Active, Terminal

(* The end of a run's body. *)
LEMMA EndStep ==
  ASSUME LifeInv, LimiterSound, NEW r \in Run, NEW q \in Run,
         (\E asked \in BOOLEAN : LoopReturns(r, asked)) \/ BodyThrows(r)
  PROVE  RunInv(q)'
<1>1. RunInv(q) /\ RunInv(r) /\ InProgress(r)
  BY DEF InTurnLoop, LifeInv, LoopReturns, BodyThrows, InProgress
<1>2. /\ current' = current /\ attached' = attached /\ slot' = slot
      /\ status' = [status EXCEPT ![r] = Transition(@, "ended")]
      /\ fiber' = [fiber EXCEPT ![r] = "over"]
      /\ finished' = [finished EXCEPT ![r] = @ + 1]
  BY DEF InTurnLoop, LoopReturns, BodyThrows, Fail, Report, limiterVars
<1>3. CASE q = r
  <2>1. status'[r] \in {"ended", "stopped"} /\ fiber'[r] = "over" /\ finished'[r] = finished[r] + 1
    BY <1>1, <1>2 DEF Transition, RunInv, LifeInv, LifeTypes
  <2>2. status[r] # "unborn" /\ finished[r] = 0 /\ fiber[r] # "none"
    BY <1>1 DEF RunInv, InProgress
  <2>3. QED
    BY <1>1, <1>2, <1>3, <2>1, <2>2 DEF RunInv, Active, Terminal, InProgress
<1>4. CASE q # r
  <2>1. status'[q] = status[q] /\ fiber'[q] = fiber[q] /\ finished'[q] = finished[q]
    BY <1>2, <1>4 DEF LifeInv, LifeTypes
  <2>2. QED
    BY <1>1, <1>2, <2>1 DEF RunInv, Active, Terminal, InProgress
<1>5. QED
  BY <1>3, <1>4

(* Stopping the current run of an agent. *)
LEMMA StopStep ==
  ASSUME LifeInv, LimiterSound, NEW a \in Agent, NEW q \in Run,
         StopCurrent(a), UNCHANGED <<limiterVars, current, fiber, attached>>
  PROVE  RunInv(q)'
<1> DEFINE r == Cur(a)
<1>1. RunInv(q)
  BY DEF LifeInv
<1>2. /\ slot' = slot /\ current' = current /\ fiber' = fiber /\ attached' = attached
  BY DEF limiterVars
<1>3. CASE UNCHANGED <<status, finished, emitting>>
  BY <1>1, <1>2, <1>3 DEF RunInv, Active, Terminal, InProgress
<1>4. CASE /\ r \in Run /\ Active(r)
           /\ status' = [status EXCEPT ![r] = "stopped"]
           /\ \/ status[r] = "queued" /\ Report(r)
              \/ status[r] # "queued" /\ UNCHANGED <<finished, emitting>>
  <2>1. CASE q = r
    <3>1. RunInv(r) /\ status'[r] = "stopped"
      BY <1>4 DEF LifeInv, LifeTypes
    <3>2. CASE status[r] = "queued"
      <4>1. finished'[r] = finished[r] + 1
        BY <1>4, <3>2 DEF Report, LifeInv, LifeTypes
      <4>2. QED
        BY <1>2, <2>1, <3>1, <3>2, <4>1 DEF RunInv, Active, Terminal, InProgress
    <3>3. CASE status[r] = "running"
      BY <1>2, <1>4, <2>1, <3>1, <3>3 DEF RunInv, Active, Terminal, InProgress
    <3>4. QED
      BY <1>4, <3>2, <3>3 DEF Active
  <2>2. CASE q # r
    <3>1. status'[q] = status[q] /\ finished'[q] = finished[q]
      BY <1>4, <2>2 DEF Report, LifeInv, LifeTypes
    <3>2. QED
      BY <1>1, <1>2, <3>1 DEF RunInv, Active, Terminal, InProgress
  <2>3. QED
    BY <2>1, <2>2
<1>5. QED
  BY <1>3, <1>4, StopEffect DEF LifeInv, LifeTypes

(* The steps that leave every run alone. *)
LEMMA RunsUntouched ==
  ASSUME LifeInv, LimiterSound, NEW q \in Run, UNCHANGED runVars,
         slot'[q] = "pending" => slot[q] = "pending",
         attached'[q[1]] => attached[q[1]]
  PROVE  RunInv(q)'
<1>1. RunInv(q)
  BY DEF LifeInv
<1>2. QED
  BY <1>1 DEF RunInv, Active, Terminal, InProgress, runVars

(* Every step of the manager preserves LifeInv.                            *)
LEMMA LifeStep == LifeInv /\ LimiterSound /\ [Next]_vars => LifeInv'
<1> SUFFICES ASSUME LifeInv, LimiterSound, [Next]_vars, NEW q \in Run PROVE RunInv(q)'
  BY TypesStep DEF LifeInv
<1>0. q[1] \in Agent
  BY RunParts
<1>1. ASSUME NEW a \in Agent, SpawnQueued(a) \/ SpawnNow(a) \/ SpawnCancelled(a) PROVE RunInv(q)'
  BY <1>1, SpawnStep
<1>2. ASSUME NEW a \in Agent, ResumeQueued(a) \/ ResumeNow(a) PROVE RunInv(q)'
  BY <1>2, ResumeStep
<1>3. CASE StartQueued
  BY <1>3, StartStep
<1>4. CASE RecheckReturns
  BY <1>4, PendingStays, RunsUntouched DEF RecheckReturns, resourceVars
<1>5. ASSUME NEW r \in Run, SlotSettles(r) \/ SlotReleased(r) PROVE RunInv(q)'
  BY <1>5, PendingStays, RunsUntouched DEF SlotSettles, SlotReleased, resourceVars
<1>6. ASSUME NEW n \in Limit, ChangeLimit(n) PROVE RunInv(q)'
  BY <1>6, PendingStays, RunsUntouched DEF ChangeLimit, resourceVars
<1>7. ASSUME NEW r \in Run, RunStep(r) PROVE RunInv(q)'
  BY <1>7, ProgressStep, EndStep DEF RunStep
<1>8. CASE ObserversReturn
  BY <1>8, RunsUntouched DEF ObserversReturn, resourceVars, limiterVars
<1>9. ASSUME NEW a \in Agent, Abort(a) PROVE RunInv(q)'
  BY <1>9, StopStep DEF Abort, resourceVars
<1>10. ASSUME NEW a \in Agent, Sweep(a) PROVE RunInv(q)'
  <2>1. attached'[q[1]] => attached[q[1]]
    BY <1>0, <1>10 DEF Sweep, LifeInv, LifeTypes
  <2>2. QED
    BY <1>10, <2>1, RunsUntouched DEF Sweep, limiterVars
<1>11. ASSUME NEW shutdown \in BOOLEAN, AbortAll(shutdown) PROVE RunInv(q)'
  BY <1>11, RunsUntouched DEF AbortAll, resourceVars, limiterVars
<1>12. CASE AbortAllVisits
  <2>1. CASE visiting \in registered
    BY <1>12, <2>1, StopStep DEF AbortAllVisits, resourceVars
  <2>2. CASE visiting \notin registered
    BY <1>12, <2>2, RunsUntouched DEF AbortAllVisits, resourceVars, runVars, limiterVars
  <2>3. QED
    BY <2>1, <2>2
<1>13. CASE AbortAllReturns
  BY <1>13, PendingStays, RunsUntouched DEF AbortAllReturns
<1>14. CASE ClearCompleted
  BY <1>14, RunsUntouched DEF ClearCompleted, limiterVars
<1>15. CASE UNCHANGED vars
  BY <1>15, RunsUntouched DEF vars, resourceVars, limiterVars
<1>16. QED
  BY <1>1, <1>2, <1>3, <1>4, <1>5, <1>6, <1>7, <1>8, <1>9, <1>10, <1>11, <1>12, <1>13, <1>14, <1>15 DEF Next

(* LifeInv holds of every reachable state. *)
THEOREM LifeInvariant == Spec => []LifeInv
  BY LifeInitially, LifeStep, LimiterStaysSound, PTL DEF Spec

-----------------------------------------------------------------------------
(* What it is for. *)

(* Every variable has its type: of each run at most one end is reported. *)
THEOREM TypeCorrect == Spec => []TypeOK
<1>1. LifeInv /\ LimiterSound => TypeOK
  <2> SUFFICES ASSUME LifeInv, LimiterSound PROVE TypeOK
    OBVIOUS
  <2>1. \A r \in Run : finished[r] \in 0 .. 1
    BY DEF LifeInv, RunInv
  <2>2. finished \in [Run -> 0 .. 1]
    BY <2>1 DEF LifeInv, LifeTypes
  <2>3. QED
    BY <2>2 DEF LifeInv, LifeTypes, LimiterSound, TypeOK, CurrentTyped
<1>2. QED
  BY <1>1, LifeInvariant, LimiterStaysSound, PTL

(* abort(), the sweep and the resume guard look only at an agent's current *)
(* run, and miss no active one.                                            *)
THEOREM CurrentRunOnly == Spec => []OnlyCurrentRunActive
<1>1. LifeInv => OnlyCurrentRunActive
  BY RunParts DEF LifeInv, RunInv, OnlyCurrentRunActive, Cur
<1>2. QED
  BY <1>1, LifeInvariant, PTL

(* Observers hear of each run exactly once, when it is over. *)
THEOREM ReportsOnce == Spec => []ReportedOnce
<1>1. LifeInv => ReportedOnce
  BY DEF LifeInv, RunInv, ReportedOnce
<1>2. QED
  BY <1>1, LifeInvariant, PTL

(* The limiter's counter, queue and wakeups stay right with runs for tasks. *)
THEOREM LimiterStaysIntact == Spec => []LimiterIntact
<1>1. LimiterSound => LimiterIntact
  BY DEF LimiterSound
<1>2. QED
  BY <1>1, LimiterStaysSound, PTL

(* No step changes the status of a run that has ended: a run that starts   *)
(* was queued, a run that a resume creates was unborn, and the return of a *)
(* stopped run's body leaves it stopped.                                   *)
THEOREM EndsStay == Spec => EndIsFinal
<1> DEFINE Final == \A r \in Run : Terminal(r) => status'[r] = status[r]
<1>1. LifeInv /\ LimiterSound /\ Next => Final
  <2> SUFFICES ASSUME LifeInv, LimiterSound, Next, NEW q \in Run, Terminal(q)
               PROVE  status'[q] = status[q]
    OBVIOUS
  <2>0. RunInv(q) /\ MaxResumes \in Nat
    BY MaxResumesAssumption DEF LifeInv
  <2>1. status \in [Run -> Statuses]
    BY DEF LifeInv, LifeTypes
  <2>2. ASSUME NEW a \in Agent, SpawnQueued(a) \/ SpawnNow(a) \/ SpawnCancelled(a)
        PROVE  status'[q] = status[q]
    <3> DEFINE s == <<a, 1>>
    <3>1. s \in Run /\ s[1] = a /\ s[2] = 1 /\ current[a] = 0
      BY <2>0, <2>2, RunMade DEF SpawnQueued, SpawnNow, SpawnCancelled, NextToSpawn
    <3>2. RunInv(s)
      BY <3>1 DEF LifeInv
    <3>3. q # s
      BY <3>1, <3>2 DEF RunInv, Terminal
    <3>4. \E st \in Statuses : status' = [status EXCEPT ![s] = st]
      BY <2>2 DEF SpawnQueued, SpawnNow, SpawnCancelled, BeginInitial, Statuses
    <3> HIDE DEF s
    <3>5. QED
      BY <2>1, <3>1, <3>3, <3>4
  <2>3. ASSUME NEW a \in Agent, ResumeQueued(a) \/ ResumeNow(a)
        PROVE  status'[q] = status[q]
    <3> DEFINE s == <<a, current[a] + 1>>
    <3>1. current[a] \in 0 .. MaxResumes
      BY <2>0, <2>3 DEF LifeInv, LifeTypes, CurrentTyped, ResumeQueued, ResumeNow, ResumeAllowed
    <3>2. s \in Run /\ s[1] = a /\ s[2] = current[a] + 1
      BY <2>0, <3>1, RunMade
    <3>3. RunInv(s)
      BY <3>2 DEF LifeInv
    <3>4. q # s
      BY <3>1, <3>2, <3>3 DEF RunInv, Terminal
    <3>5. \E st \in Statuses : status' = [status EXCEPT ![s] = st]
      BY <2>3 DEF LoopEnteredAs, ResumeQueued, ResumeNow, BeginResumed, Statuses
    <3> HIDE DEF s
    <3>6. QED
      BY <2>1, <3>2, <3>4, <3>5
  <2>4. CASE StartQueued
    <3> DEFINE s == Head(pending)
    <3>1. s \in Run /\ (MayStart(s) => status[s] = "queued")
      BY <2>4, HeadStarts DEF StartQueued, Limiter!StartNext
    <3>2. CASE MayStart(s)
      <4>1. q # s
        BY <3>1, <3>2 DEF Terminal
      <4>2. \E st \in Statuses : status' = [status EXCEPT ![s] = st]
        BY <2>4, <3>2 DEF LoopEnteredAs, StartQueued, BeginInitial, BeginResumed, Statuses
      <4> HIDE DEF s
      <4>3. QED
        BY <2>1, <3>1, <4>1, <4>2
    <3>3. CASE ~MayStart(s)
      BY <2>4, <3>3 DEF StartQueued
    <3>4. QED
      BY <3>2, <3>3
  <2>5. ASSUME NEW r \in Run, RunStep(r) PROVE status'[q] = status[q]
    <3>1. CASE Prepared(r) \/ SessionCreated(r)
      BY <3>1 DEF LoopEnteredAs, Prepared, SessionCreated
    <3>2. CASE (\E asked \in BOOLEAN : LoopReturns(r, asked)) \/ BodyThrows(r)
      <4>1. InProgress(r) /\ status' = [status EXCEPT ![r] = Transition(@, "ended")]
        BY <3>2 DEF InTurnLoop, LoopReturns, BodyThrows, Fail, InProgress
      <4>2. CASE q = r
        BY <2>0, <2>1, <4>1, <4>2 DEF Transition, RunInv, Terminal
      <4>3. CASE q # r
        BY <2>1, <4>1, <4>3
      <4>4. QED
        BY <4>2, <4>3
    <3>3. QED
      BY <2>5, <3>1, <3>2 DEF RunStep
  <2>6. ASSUME NEW a \in Agent, StopCurrent(a) PROVE status'[q] = status[q]
    <3>1. CASE UNCHANGED <<status, finished, emitting>>
      BY <3>1
    <3>2. CASE Cur(a) \in Run /\ Active(Cur(a)) /\ status' = [status EXCEPT ![Cur(a)] = "stopped"]
      BY <2>1, <3>2 DEF Active, Terminal
    <3>3. QED
      BY <2>6, <3>1, <3>2, StopEffect DEF LifeInv, LifeTypes
  <2>7. ASSUME NEW a \in Agent, Abort(a) PROVE status'[q] = status[q]
    BY <2>6, <2>7 DEF Abort
  <2>8. CASE AbortAllVisits
    BY <2>6, <2>8 DEF AbortAllVisits
  <2>9. CASE UNCHANGED runVars
    BY <2>9 DEF runVars
  <2>10. QED
    BY <2>2, <2>3, <2>4, <2>5, <2>7, <2>8, <2>9
       DEF Next, RecheckReturns, SlotSettles, SlotReleased, ChangeLimit, ObserversReturn, Sweep, AbortAll,
           AbortAllReturns, ClearCompleted
<1>2. ASSUME LifeInv, LimiterSound, [Next]_vars PROVE [Final]_vars
  BY <1>1, <1>2
<1>3. QED
  BY <1>2, LifeInvariant, LimiterStaysSound, PTL DEF Spec, EndIsFinal

(* A slot is held until the body of its run has returned, and a queued run *)
(* begins only in a slot.  The first needs only that settling looks at the *)
(* body and not at the status; the second that no step but the limiter's   *)
(* own begins a run that is queued.                                        *)
THEOREM SlotsCoverBodies == Spec => BodiesHoldSlots
<1> DEFINE Hold(r) == slot[r] = "running" /\ slot'[r] # "running" => ~InProgress(r)
           Begin(r) == status[r] = "queued" /\ fiber'[r] # "none" => slot'[r] = "running"
           Covered == \A r \in Run :
             /\ slot[r] = "running" /\ slot'[r] # "running" => ~InProgress(r)
             /\ status[r] = "queued" /\ fiber'[r] # "none" => slot'[r] = "running"
<1>1. LifeInv /\ LimiterSound /\ Next => Covered
  <2> SUFFICES ASSUME LifeInv, LimiterSound, Next, NEW q \in Run
               PROVE  Hold(q) /\ Begin(q)
    OBVIOUS
  <2>0. RunInv(q) /\ MaxResumes \in Nat /\ CurrentTyped
    BY MaxResumesAssumption DEF LifeInv, LifeTypes
  <2>1. status \in [Run -> Statuses] /\ fiber \in [Run -> Fibers] /\ slot \in [Run -> Limiter!SlotState]
    BY DEF LifeInv, LifeTypes, LimiterSound, Limiter!LimiterTypeOK
  <2>2. ASSUME UNCHANGED limiterVars PROVE Hold(q)
    BY <2>2 DEF limiterVars
  <2>3. ASSUME UNCHANGED fiber PROVE Begin(q)
    BY <2>0, <2>3 DEF RunInv
  <2>4. ASSUME NEW t \in Run, Limiter!Schedule(t) PROVE Hold(q)
    BY <2>1, <2>4 DEF Limiter!Schedule
  <2>5. ASSUME NEW a \in Agent, SpawnQueued(a) \/ SpawnNow(a) \/ SpawnCancelled(a)
        PROVE  Hold(q) /\ Begin(q)
    <3> DEFINE s == <<a, 1>>
    <3>1. s \in Run /\ s[1] = a /\ s[2] = 1 /\ current[a] = 0
      BY <2>0, <2>5, RunMade DEF SpawnQueued, SpawnNow, SpawnCancelled, NextToSpawn
    <3>2. status[s] = "unborn"
      BY <3>1 DEF LifeInv, RunInv
    <3>3. UNCHANGED fiber \/ \E fb \in Fibers : fiber' = [fiber EXCEPT ![s] = fb]
      BY <2>5 DEF SpawnQueued, SpawnNow, SpawnCancelled, BeginInitial, Fibers
    <3>4. UNCHANGED limiterVars \/ Limiter!Schedule(s)
      BY <2>5 DEF SpawnQueued, SpawnNow, SpawnCancelled
    <3> HIDE DEF s
    <3>5. status[q] = "queued" => fiber'[q] = fiber[q]
      BY <2>1, <3>1, <3>2, <3>3
    <3>6. QED
      BY <2>0, <2>2, <2>4, <3>1, <3>4, <3>5 DEF RunInv
  <2>6. ASSUME NEW a \in Agent, ResumeQueued(a) \/ ResumeNow(a)
        PROVE  Hold(q) /\ Begin(q)
    <3> DEFINE s == <<a, current[a] + 1>>
    <3>1. current[a] \in 0 .. MaxResumes
      BY <2>0, <2>6 DEF CurrentTyped, ResumeQueued, ResumeNow, ResumeAllowed
    <3>2. s \in Run /\ s[1] = a /\ s[2] = current[a] + 1
      BY <2>0, <3>1, RunMade
    <3>3. status[s] = "unborn"
      BY <3>1, <3>2 DEF LifeInv, RunInv
    <3>4. UNCHANGED fiber \/ \E fb \in Fibers : fiber' = [fiber EXCEPT ![s] = fb]
      BY <2>6 DEF LoopEnteredAs, ResumeQueued, ResumeNow, BeginResumed, Fibers
    <3>5. UNCHANGED limiterVars \/ Limiter!Schedule(s)
      BY <2>6 DEF ResumeQueued, ResumeNow
    <3> HIDE DEF s
    <3>6. status[q] = "queued" => fiber'[q] = fiber[q]
      BY <2>1, <3>2, <3>3, <3>4
    <3>7. QED
      BY <2>0, <2>2, <2>4, <3>2, <3>5, <3>6 DEF RunInv
  <2>7. CASE StartQueued
    <3> DEFINE s == Head(pending)
    <3>1. s \in Run /\ slot[s] = "pending" /\ slot' = [slot EXCEPT ![s] = "running"]
      BY <2>7, HeadStarts DEF StartQueued, Limiter!StartNext
    <3>2. \E fb \in Fibers : fiber' = [fiber EXCEPT ![s] = fb]
      BY <2>7 DEF LoopEnteredAs, StartQueued, BeginInitial, BeginResumed, Fibers
    <3> HIDE DEF s
    <3>3. q = s \/ fiber'[q] = fiber[q]
      BY <2>1, <3>1, <3>2
    <3>4. QED
      BY <2>0, <2>1, <3>1, <3>3 DEF RunInv
  <2>8. ASSUME NEW r \in Run, SlotSettles(r) PROVE Hold(q)
    BY <2>1, <2>8 DEF SlotSettles, RunReturned, InProgress, Limiter!Settle
  <2>9. ASSUME NEW r \in Run, SlotReleased(r) PROVE Hold(q)
    BY <2>1, <2>9 DEF SlotReleased, Limiter!Release
  <2>10. ASSUME Limiter!RecheckDone \/ Limiter!Clear \/ \E n \in Limit : Limiter!SetLimit(n)
         PROVE  Hold(q)
    BY <2>1, <2>10 DEF Limiter!RecheckDone, Limiter!Clear, Limiter!SetLimit
  <2>11. ASSUME NEW r \in Run, RunStep(r) PROVE Hold(q) /\ Begin(q)
    <3>1. InProgress(r) /\ RunInv(r) /\ UNCHANGED limiterVars
          /\ \E fb \in Fibers : fiber' = [fiber EXCEPT ![r] = fb]
      BY <2>11 DEF LoopEnteredAs, InTurnLoop, RunStep, Prepared, SessionCreated, LoopReturns, BodyThrows, Fail, InProgress, LifeInv, Fibers
    <3>2. status[q] = "queued" => fiber'[q] = fiber[q]
      BY <2>1, <3>1 DEF RunInv
    <3>3. QED
      BY <2>0, <2>2, <3>1, <3>2 DEF RunInv
  <2>12. QED
    BY <2>2, <2>3, <2>5, <2>6, <2>7, <2>8, <2>9, <2>10, <2>11
       DEF Next, RecheckReturns, SlotSettles, SlotReleased, ChangeLimit, ObserversReturn, Abort, Sweep, AbortAll,
           AbortAllVisits, AbortAllReturns, ClearCompleted, runVars
<1>2. ASSUME LifeInv, LimiterSound, [Next]_vars PROVE [Covered]_vars
  BY <1>1, <1>2
<1>3. QED
  BY <1>2, LifeInvariant, LimiterStaysSound, PTL DEF Spec, BodiesHoldSlots

-----------------------------------------------------------------------------
(* Queued runs and their thunks, when no consumer of a completion event    *)
(* calls back into abortAll()'s loop.                                      *)

(* The inductive invariant.  abortAll() drops the whole queue when its     *)
(* loop over the records is done, so no run may be queued by then: while   *)
(* the loop runs nothing else does, no agent it has passed is active, and  *)
(* it misses none because every active agent has a record.                 *)
ThunkHeld(r) == status[r] = "queued" => slot[r] = "pending"
RecordHeld(a) == AgentActive(a) => a \in registered
LoopAhead ==
  visiting # 0 => Limiter!Quiet /\ \A a \in Agent : a < visiting => ~AgentActive(a)

QueueInv == (\A r \in Run : ThunkHeld(r)) /\ (\A a \in Agent : RecordHeld(a)) /\ LoopAhead

(* An agent whose current run keeps its status stays as active as it was. *)
LEMMA ActiveSame ==
  ASSUME NEW a \in Agent, current'[a] = current[a], status'[Cur(a)] = status[Cur(a)]
  PROVE  AgentActive(a)' <=> AgentActive(a)
  BY DEF AgentActive, Active, Cur

(* A queued run is its agent's current run, so the agent is active.        *)
LEMMA QueuedIsActive ==
  ASSUME LifeInv, NEW r \in Run, status[r] = "queued"
  PROVE  r = Cur(r[1]) /\ AgentActive(r[1])
<1>1. r[1] \in Agent /\ r[2] \in 1 .. MaxResumes + 1 /\ r = <<r[1], r[2]>>
  BY RunParts
<1>2. r[2] = current[r[1]]
  BY DEF LifeInv, RunInv, Active
<1>3. QED
  BY <1>1, <1>2, MaxResumesAssumption DEF AgentActive, Active, Cur

(* A step that touches neither runs nor records keeps QueueInv if the      *)
(* limiter keeps the queued runs' thunks.                                  *)
LEMMA QueueUntouched ==
  ASSUME QueueInv, UNCHANGED <<current, status, registered, visiting>>,
         visiting # 0 => Limiter!Quiet',
         \A r \in Run : slot[r] = "pending" => slot'[r] = "pending"
  PROVE  QueueInv'
  BY DEF QueueInv, ThunkHeld, RecordHeld, LoopAhead, AgentActive, Active, Cur

(* Stopping an agent only takes runs out of the queue. *)
LEMMA QueueStop ==
  ASSUME LifeInv, QueueInv, NEW a \in Agent, StopCurrent(a),
         UNCHANGED <<limiterVars, current, registered>>
  PROVE  /\ \A r \in Run : ThunkHeld(r)'
         /\ \A b \in Agent : RecordHeld(b)'
         /\ \A b \in Agent : AgentActive(b)' => AgentActive(b) /\ b # a
<1>1. slot' = slot /\ current' = current /\ registered' = registered /\ status \in [Run -> Statuses]
  BY DEF limiterVars, LifeInv, LifeTypes
<1>2. CASE ~AgentActive(a)
  <2>1. status' = status
    BY <1>2 DEF StopCurrent
  <2>2. QED
    BY <1>1, <1>2, <2>1 DEF QueueInv, ThunkHeld, RecordHeld, AgentActive, Active, Cur
<1>3. CASE AgentActive(a)
  <2>1. Cur(a) \in Run /\ status' = [status EXCEPT ![Cur(a)] = "stopped"]
    BY <1>3, RunMade, MaxResumesAssumption DEF StopCurrent, AgentActive, Cur, LifeInv, LifeTypes, CurrentTyped
  <2>2. \A r \in Run : status'[r] = status[r] \/ (r = Cur(a) /\ status'[r] = "stopped")
    BY <1>1, <2>1
  <2>3. ~AgentActive(a)'
    BY <1>1, <2>1 DEF AgentActive, Active, Cur
  <2>4. ASSUME NEW b \in Agent, b # a PROVE AgentActive(b)' <=> AgentActive(b)
    <3>1. Cur(b) # Cur(a)
      BY <2>4 DEF Cur
    <3>2. current[b] # 0 => Cur(b) \in Run
      BY RunMade, MaxResumesAssumption DEF Cur, LifeInv, LifeTypes, CurrentTyped
    <3>3. QED
      BY <1>1, <2>2, <3>1, <3>2 DEF AgentActive, Active, Cur
  <2>5. QED
    BY <1>1, <2>2, <2>3, <2>4 DEF QueueInv, ThunkHeld, RecordHeld
<1>4. QED
  BY <1>2, <1>3

(* Spawning and resuming add one run, with a thunk if it is queued; no     *)
(* abortAll() is under way.                                                *)
LEMMA QueueGrows ==
  ASSUME LifeInv, LimiterSound, QueueInv, "call_in_abort_all" \notin Rash, NEW a \in Agent,
         \/ SpawnQueued(a) \/ SpawnNow(a) \/ SpawnCancelled(a)
         \/ ResumeQueued(a) \/ ResumeNow(a)
  PROVE  QueueInv'
<1> DEFINE s == <<a, current[a] + 1>>
<1>0. MaxResumes \in Nat /\ current[a] \in 0 .. MaxResumes
  BY MaxResumesAssumption
     DEF LifeInv, LifeTypes, CurrentTyped, SpawnQueued, SpawnNow, SpawnCancelled, NextToSpawn,
         ResumeQueued, ResumeNow, ResumeAllowed
<1>1. s \in Run /\ s[1] = a
  BY <1>0, RunMade
<1>2. visiting = 0 /\ visiting' = 0
  BY DEF SpawnQueued, SpawnNow, SpawnCancelled, NextToSpawn, ResumeQueued, ResumeNow, ResumeAllowed,
         CallerActs, stackVars
<1>3. /\ current' = [current EXCEPT ![a] = @ + 1]
      /\ a \in registered' /\ registered \subseteq registered'
  BY DEF SpawnQueued, SpawnNow, SpawnCancelled, NextToSpawn, ResumeQueued, ResumeNow, ResumeAllowed,
         managerVars, LifeInv, LifeTypes, CurrentTyped
<1>4. \E st \in Statuses : status' = [status EXCEPT ![s] = st]
  BY DEF LoopEnteredAs, SpawnQueued, SpawnNow, SpawnCancelled, NextToSpawn, ResumeQueued, ResumeNow, BeginInitial,
         BeginResumed, Statuses
<1>5. (UNCHANGED limiterVars /\ status'[s] # "queued") \/ Limiter!Schedule(s)
  BY <1>1 DEF LoopEnteredAs, SpawnQueued, SpawnNow, SpawnCancelled, NextToSpawn, ResumeQueued, ResumeNow, BeginInitial,
              BeginResumed, LifeInv, LifeTypes
<1> HIDE DEF s
<1>6. \A r \in Run : r # s => status'[r] = status[r]
  BY <1>1, <1>4 DEF LifeInv, LifeTypes
<1>7. ASSUME NEW r \in Run PROVE ThunkHeld(r)'
  <2>1. ThunkHeld(r) /\ slot \in [Run -> Limiter!SlotState]
    BY DEF QueueInv, LimiterSound, Limiter!LimiterTypeOK
  <2>2. CASE UNCHANGED limiterVars /\ status'[s] # "queued"
    BY <1>6, <2>1, <2>2 DEF ThunkHeld, limiterVars
  <2>3. CASE Limiter!Schedule(s)
    BY <1>1, <1>6, <2>1, <2>3 DEF ThunkHeld, Limiter!Schedule
  <2>4. QED
    BY <1>5, <2>2, <2>3
<1>8. ASSUME NEW b \in Agent PROVE RecordHeld(b)'
  <2>1. CASE b = a
    BY <1>3, <2>1 DEF RecordHeld
  <2>2. CASE b # a
    <3>1. current'[b] = current[b] /\ (current[b] # 0 => Cur(b) \in Run /\ Cur(b) # s)
      BY <1>0, <1>1, <1>3, <2>2, RunMade DEF LifeInv, LifeTypes, CurrentTyped, Cur
    <3>2. AgentActive(b)' => AgentActive(b)
      BY <1>6, <3>1 DEF AgentActive, Active, Cur
    <3>3. QED
      BY <1>3, <3>2 DEF QueueInv, RecordHeld
  <2>3. QED
    BY <2>1, <2>2
<1>9. LoopAhead'
  BY <1>2 DEF LoopAhead
<1>10. QED
  BY <1>7, <1>8, <1>9 DEF QueueInv

(* recheck() starts the run at the head of the queue: it is not queued any *)
(* more, and it was active before.                                         *)
LEMMA QueueStart ==
  ASSUME LifeInv, LimiterSound, QueueInv, StartQueued
  PROVE  QueueInv'
<1> DEFINE s == Head(pending)
<1>1. /\ s \in Run /\ slot[s] = "pending"
      /\ MayStart(s) => status[s] = "queued"
      /\ ~MayStart(s) => Terminal(s)
  BY HeadStarts DEF StartQueued, Limiter!StartNext
<1>2. visiting = 0 /\ visiting' = 0
  BY DEF QueueInv, LoopAhead, StartQueued, Limiter!StartNext, stackVars
<1>3. current' = current /\ registered' = registered
  BY DEF StartQueued, managerVars
<1>4. status'[s] # "queued" /\ \A r \in Run : r # s => status'[r] = status[r] /\ slot'[r] = slot[r]
  BY <1>1 DEF LoopEnteredAs, StartQueued, BeginInitial, BeginResumed, Limiter!StartNext, Terminal,
              LifeInv, LifeTypes, LimiterSound, Limiter!LimiterTypeOK
<1>5. status'[s] \in {"queued", "running"} => Active(s)
  <2>1. CASE MayStart(s)
    BY <1>1, <2>1 DEF Active
  <2>2. CASE ~MayStart(s)
    BY <2>2 DEF StartQueued, Active
  <2>3. QED
    BY <2>1, <2>2
<1> HIDE DEF s
<1>6. ASSUME NEW r \in Run PROVE ThunkHeld(r)'
  BY <1>4 DEF ThunkHeld, QueueInv
<1>7. ASSUME NEW a \in Agent PROVE RecordHeld(a)'
  <2>1. current[a] # 0 => Cur(a) \in Run
    BY RunMade, MaxResumesAssumption DEF Cur, LifeInv, LifeTypes, CurrentTyped
  <2>2. AgentActive(a)' => AgentActive(a)
    BY <1>3, <1>4, <1>5, <2>1 DEF AgentActive, Active, Cur
  <2>3. QED
    BY <1>3, <2>2 DEF QueueInv, RecordHeld
<1>8. QED
  BY <1>2, <1>6, <1>7 DEF QueueInv, LoopAhead

(* A callback of a run changes that run alone, and ends it if it changes   *)
(* its status; abortAll()'s loop is not under way.                         *)
LEMMA QueueRunStep ==
  ASSUME LifeInv, QueueInv, NEW s \in Run, RunStep(s)
  PROVE  QueueInv'
<1>1. /\ visiting = 0 /\ visiting' = 0
      /\ current' = current /\ registered' = registered /\ slot' = slot
  BY DEF LoopEnteredAs, InTurnLoop, RunStep, Prepared, SessionCreated, LoopReturns, BodyThrows, Fail, Idle, stackVars, managerVars,
         limiterVars
<1>2. status' = status \/ status' = [status EXCEPT ![s] = Transition(@, "ended")]
  BY DEF LoopEnteredAs, InTurnLoop, RunStep, Prepared, SessionCreated, LoopReturns, BodyThrows, Fail
<1>3. \A r \in Run : status'[r] = status[r] \/ status'[r] \in {"ended", "stopped"}
  BY <1>2 DEF Transition, LifeInv, LifeTypes
<1>4. ASSUME NEW a \in Agent PROVE RecordHeld(a)'
  <2>1. current[a] # 0 => Cur(a) \in Run
    BY RunMade, MaxResumesAssumption DEF Cur, LifeInv, LifeTypes, CurrentTyped
  <2>2. QED
    BY <1>1, <1>3, <2>1 DEF QueueInv, RecordHeld, AgentActive, Active, Cur
<1>5. QED
  BY <1>1, <1>3, <1>4 DEF QueueInv, ThunkHeld, LoopAhead

(* The loop of abortAll() has left no agent active, so the queue it drops  *)
(* and the records a shutdown drops are of no queued run.                  *)
LEMMA QueueDropped ==
  ASSUME LifeInv, QueueInv, AbortAllReturns
  PROVE  QueueInv'
<1>1. /\ visiting = NumAgents + 1 /\ visiting' = 0
      /\ current' = current /\ status' = status
  BY DEF AbortAllReturns, runVars
<1>2. \A a \in Agent : ~AgentActive(a)
  BY <1>1, NumAgentsAssumption DEF QueueInv, LoopAhead, Agent
<1>3. \A r \in Run : status[r] # "queued"
  BY <1>2, QueuedIsActive, RunParts
<1>4. QED
  BY <1>1, <1>2, <1>3 DEF QueueInv, ThunkHeld, RecordHeld, LoopAhead, AgentActive, Active, Cur

(* Every step preserves QueueInv. *)
LEMMA QueueStep ==
  ASSUME LifeInv, LimiterSound, QueueInv, "call_in_abort_all" \notin Rash, [Next]_vars
  PROVE  QueueInv'
<1>0. slot \in [Run -> Limiter!SlotState]
  BY DEF LimiterSound, Limiter!LimiterTypeOK
<1>1. ASSUME NEW a \in Agent,
             \/ SpawnQueued(a) \/ SpawnNow(a) \/ SpawnCancelled(a)
             \/ ResumeQueued(a) \/ ResumeNow(a)
      PROVE  QueueInv'
  BY <1>1, QueueGrows
<1>2. CASE StartQueued
  BY <1>2, QueueStart
<1>3. CASE RecheckReturns
  BY <1>3, QueueUntouched DEF RecheckReturns, Limiter!RecheckDone, Limiter!Quiet, managerVars, runVars,
                                 stackVars
<1>4. ASSUME NEW r \in Run, SlotSettles(r) \/ SlotReleased(r) PROVE QueueInv'
  <2>1. visiting = 0 /\ UNCHANGED <<current, status, registered, visiting>>
    BY <1>4 DEF SlotSettles, SlotReleased, Idle, managerVars, runVars, stackVars
  <2>2. \A q \in Run : slot[q] = "pending" => slot'[q] = "pending"
    BY <1>0, <1>4 DEF SlotSettles, SlotReleased, Limiter!Settle, Limiter!Release
  <2>3. QED
    BY <2>1, <2>2, QueueUntouched
<1>5. ASSUME NEW n \in Limit, ChangeLimit(n) PROVE QueueInv'
  BY <1>5, QueueUntouched DEF ChangeLimit, Limiter!SetLimit, Idle, managerVars, runVars, stackVars
<1>6. ASSUME NEW r \in Run, RunStep(r) PROVE QueueInv'
  BY <1>6, QueueRunStep
<1>7. CASE ObserversReturn \/ UNCHANGED vars
  BY <1>7, QueueUntouched
     DEF ObserversReturn, vars, limiterVars, managerVars, runVars, stackVars, QueueInv, LoopAhead, Limiter!Quiet
<1>8. ASSUME NEW a \in Agent, Abort(a) PROVE QueueInv'
  <2>1. visiting' = 0
    BY <1>8 DEF Abort, CallerActs
  <2>2. QED
    BY <1>8, <2>1, QueueStop DEF Abort, managerVars, QueueInv, LoopAhead
<1>9. ASSUME NEW a \in Agent, Sweep(a) PROVE QueueInv'
  BY <1>9, QueueUntouched DEF Sweep, Idle, limiterVars, managerVars, runVars, stackVars
<1>10. ASSUME NEW shutdown \in BOOLEAN, AbortAll(shutdown) PROVE QueueInv'
  <2>1. /\ visiting' = 1 /\ Limiter!Quiet' /\ slot' = slot
        /\ UNCHANGED <<current, status, registered>>
    BY <1>10 DEF AbortAll, Idle, Limiter!Quiet, limiterVars, managerVars, runVars
  <2>2. QED
    BY <2>1 DEF QueueInv, ThunkHeld, RecordHeld, LoopAhead, AgentActive, Active, Cur, Agent
<1>11. CASE AbortAllVisits
  <2>1. visiting \in Agent /\ visiting' = visiting + 1 /\ Limiter!Quiet'
        /\ UNCHANGED <<limiterVars, current, registered>>
    BY <1>11 DEF AbortAllVisits, Limiter!Quiet, limiterVars, managerVars
  <2>2. /\ \A r \in Run : ThunkHeld(r)'
        /\ \A b \in Agent : RecordHeld(b)'
        /\ \A b \in Agent : AgentActive(b)' => AgentActive(b) /\ b # visiting
    <3>1. CASE visiting \in registered
      BY <1>11, <2>1, <3>1, QueueStop DEF AbortAllVisits
    <3>2. CASE visiting \notin registered
      BY <1>11, <2>1, <3>2
         DEF AbortAllVisits, QueueInv, ThunkHeld, RecordHeld, AgentActive, Active, Cur, limiterVars
    <3>3. QED
      BY <3>1, <3>2
  <2>3. \A b \in Agent : b < visiting' => ~AgentActive(b)'
    BY <2>1, <2>2, NumAgentsAssumption DEF QueueInv, LoopAhead, Agent
  <2>4. QED
    BY <2>1, <2>2, <2>3 DEF QueueInv, LoopAhead
<1>12. CASE AbortAllReturns
  BY <1>12, QueueDropped
<1>13. CASE ClearCompleted
  <2>1. /\ visiting = 0 /\ visiting' = 0 /\ slot' = slot
        /\ UNCHANGED <<current, status>>
        /\ registered' = {a \in registered : AgentActive(a)}
    BY <1>13 DEF ClearCompleted, Kept, Idle, limiterVars, runVars, stackVars
  <2>2. QED
    BY <2>1 DEF QueueInv, ThunkHeld, RecordHeld, LoopAhead, AgentActive, Active, Cur
<1>14. QED
  BY <1>1, <1>2, <1>3, <1>4, <1>5, <1>6, <1>7, <1>8, <1>9, <1>10, <1>11, <1>12, <1>13 DEF Next

(* QueueInv holds of every reachable state, if nobody calls the manager    *)
(* from an event that abortAll() emits.                                    *)
THEOREM QueueInvariant ==
  ASSUME "call_in_abort_all" \notin Rash
  PROVE  Spec => []QueueInv
<1>1. Init => QueueInv
  BY DEF Init, QueueInv, ThunkHeld, RecordHeld, LoopAhead, AgentActive
<1>2. LifeInv /\ LimiterSound /\ QueueInv /\ [Next]_vars => QueueInv'
  BY QueueStep
<1>3. QED
  BY <1>1, <1>2, LifeInvariant, LimiterStaysSound, PTL DEF Spec

(* A queued run has its thunk in the limiter, so it either starts or is    *)
(* stopped: abortAll() drops the thunks only of runs it has stopped.       *)
THEOREM QueuedRunsKeepTheirThunk ==
  ASSUME "call_in_abort_all" \notin Rash
  PROVE  Spec => []QueuedRunHasThunk
<1>1. QueueInv => QueuedRunHasThunk
  BY DEF QueueInv, ThunkHeld, QueuedRunHasThunk
<1>2. QED
  BY <1>1, QueueInvariant, PTL

-----------------------------------------------------------------------------
(* One body per agent, when nobody resumes an agent before the loop of its *)
(* stopped run has returned.                                               *)

(* The inductive invariant: beside the body of a run that is under way,    *)
(* its agent has no other body and no queued run that would become one.    *)
Awaits(r) == InProgress(r) \/ status[r] = "queued"
OneBody == \A q, r \in Run : q[1] = r[1] /\ InProgress(q) /\ Awaits(r) => q = r

(* A step that starts no body and queues no run. *)
LEMMA BodiesShrink ==
  ASSUME OneBody, \A r \in Run : (InProgress(r)' => InProgress(r)) /\ (Awaits(r)' => Awaits(r))
  PROVE  OneBody'
  BY DEF OneBody

(* A step that starts or queues the run s of an agent that has nothing     *)
(* else under way.                                                         *)
LEMMA BodyFresh ==
  ASSUME OneBody, NEW s \in Run,
         \A r \in Run : r # s => fiber'[r] = fiber[r] /\ status'[r] = status[r],
         \A r \in Run : r # s /\ r[1] = s[1] => ~Awaits(r)
  PROVE  OneBody'
  BY DEF OneBody, Awaits, InProgress

(* Spawning: the agent has had no run.  Resuming: its last run has ended,  *)
(* and its body has returned.                                              *)
LEMMA BodyGrows ==
  ASSUME LifeInv, OneBody, "resume_unwinding" \notin Rash, NEW a \in Agent,
         \/ SpawnQueued(a) \/ SpawnNow(a) \/ SpawnCancelled(a)
         \/ ResumeQueued(a) \/ ResumeNow(a)
  PROVE  OneBody'
<1> DEFINE s == <<a, current[a] + 1>>
<1>0. MaxResumes \in Nat /\ current[a] \in 0 .. MaxResumes
  BY MaxResumesAssumption
     DEF LifeInv, LifeTypes, CurrentTyped, SpawnQueued, SpawnNow, SpawnCancelled, NextToSpawn,
         ResumeQueued, ResumeNow, ResumeAllowed
<1>1. s \in Run /\ s[1] = a
  BY <1>0, RunMade
<1>2. /\ \E st \in Statuses : status' = [status EXCEPT ![s] = st]
      /\ fiber' = fiber \/ \E fb \in Fibers : fiber' = [fiber EXCEPT ![s] = fb]
  BY DEF LoopEnteredAs, SpawnQueued, SpawnNow, SpawnCancelled, NextToSpawn, ResumeQueued, ResumeNow, BeginInitial,
         BeginResumed, Statuses, Fibers
<1>3. ASSUME NEW r \in Run, r[1] = a PROVE ~Awaits(r)
  <2>1. RunInv(r) /\ r[2] \in 1 .. MaxResumes + 1 /\ r = <<a, r[2]>>
    BY <1>3, RunParts DEF LifeInv
  <2>2. CASE SpawnQueued(a) \/ SpawnNow(a) \/ SpawnCancelled(a)
    <3>1. status[r] = "unborn"
      BY <1>0, <1>3, <2>1, <2>2 DEF SpawnQueued, SpawnNow, SpawnCancelled, NextToSpawn, RunInv
    <3>2. QED
      BY <2>1, <3>1 DEF RunInv, Awaits, InProgress
  <2>3. CASE ResumeQueued(a) \/ ResumeNow(a)
    <3>1. Resumable(a) /\ ~Stopping(a) /\ attached[a]
      BY <2>3 DEF ResumeQueued, ResumeNow, ResumeAllowed, Resumable
    <3>2. CASE Active(r)
      <4>1. r = Cur(a) /\ r[2] = current[a]
        BY <1>3, <2>1, <3>2 DEF RunInv, Cur
      <4>2. status[r] = "queued" /\ r[2] = 1
        BY <1>0, <2>1, <3>1, <3>2, <4>1 DEF Resumable, Active
      <4>3. QED
        BY <1>3, <2>1, <3>1, <4>2 DEF RunInv
    <3>3. CASE ~Active(r)
      BY <1>3, <3>1, <3>3 DEF Stopping, Awaits, Active
    <3>4. QED
      BY <3>2, <3>3
  <2>4. QED
    BY <2>2, <2>3
<1> HIDE DEF s
<1>4. \A r \in Run : r # s => fiber'[r] = fiber[r] /\ status'[r] = status[r]
  BY <1>1, <1>2 DEF LifeInv, LifeTypes
<1>5. QED
  BY <1>1, <1>3, <1>4, BodyFresh

(* recheck() starts a queued run: nothing else of its agent is under way.  *)
LEMMA BodyStarts ==
  ASSUME LifeInv, LimiterSound, OneBody, StartQueued
  PROVE  OneBody'
<1> DEFINE s == Head(pending)
<1>1. /\ s \in Run
      /\ MayStart(s) => status[s] = "queued"
  BY HeadStarts DEF StartQueued, Limiter!StartNext
<1>2. /\ status' = status \/ \E st \in Statuses : status' = [status EXCEPT ![s] = st]
      /\ \E fb \in Fibers : fiber' = [fiber EXCEPT ![s] = fb]
  BY DEF LoopEnteredAs, StartQueued, BeginInitial, BeginResumed, Statuses, Fibers
<1>3. ~MayStart(s) => status' = status /\ fiber' = [fiber EXCEPT ![s] = "over"]
  BY DEF StartQueued
<1> HIDE DEF s
<1>4. \A r \in Run : r # s => fiber'[r] = fiber[r] /\ status'[r] = status[r]
  BY <1>1, <1>2 DEF LifeInv, LifeTypes
<1>5. CASE MayStart(s)
  <2>1. ASSUME NEW r \in Run, r # s, r[1] = s[1] PROVE ~Awaits(r)
    <3>1. ~InProgress(r)
      BY <1>1, <1>5, <2>1 DEF OneBody, Awaits
    <3>2. r[2] # s[2]
      BY <1>1, <2>1, RunParts
    <3>3. status[r] # "queued"
      BY <1>1, <1>5, <2>1, <3>2 DEF LifeInv, RunInv, Active
    <3>4. QED
      BY <3>1, <3>3 DEF Awaits
  <2>2. QED
    BY <1>1, <1>4, <2>1, BodyFresh
<1>6. CASE ~MayStart(s)
  <2>1. \A r \in Run : (InProgress(r)' => InProgress(r)) /\ status'[r] = status[r]
    BY <1>1, <1>3, <1>4, <1>6 DEF InProgress, LifeInv, LifeTypes
  <2>2. QED
    BY <2>1, BodiesShrink DEF Awaits
<1>7. QED
  BY <1>5, <1>6

(* Every step preserves OneBody. *)
LEMMA BodyStep ==
  ASSUME LifeInv, LimiterSound, OneBody, "resume_unwinding" \notin Rash, [Next]_vars
  PROVE  OneBody'
<1>0. status \in [Run -> Statuses] /\ fiber \in [Run -> Fibers]
  BY DEF LifeInv, LifeTypes
<1>1. ASSUME NEW a \in Agent,
             \/ SpawnQueued(a) \/ SpawnNow(a) \/ SpawnCancelled(a)
             \/ ResumeQueued(a) \/ ResumeNow(a)
      PROVE  OneBody'
  BY <1>1, BodyGrows
<1>2. CASE StartQueued
  BY <1>2, BodyStarts
<1>3. ASSUME NEW s \in Run, RunStep(s) PROVE OneBody'
  <2>1. /\ InProgress(s)
        /\ \E fb \in Fibers : fiber' = [fiber EXCEPT ![s] = fb]
        /\ status' = status \/ status' = [status EXCEPT ![s] = Transition(@, "ended")]
    BY <1>3 DEF LoopEnteredAs, InTurnLoop, RunStep, Prepared, SessionCreated, LoopReturns, BodyThrows, Fail, InProgress, Fibers
  <2>2. \A r \in Run : (InProgress(r)' => InProgress(r)) /\ (status'[r] = "queued" => status[r] = "queued")
    BY <1>0, <2>1 DEF InProgress, Transition
  <2>3. QED
    BY <2>2, BodiesShrink DEF Awaits
<1>4. ASSUME NEW a \in Agent, StopCurrent(a), UNCHANGED fiber PROVE OneBody'
  <2>1. status' = status \/ (Cur(a) \in Run /\ status' = [status EXCEPT ![Cur(a)] = "stopped"])
    BY <1>4, StopEffect DEF LifeInv, LifeTypes
  <2>2. \A r \in Run : status'[r] = "queued" => status[r] = "queued"
    BY <1>0, <2>1
  <2>3. QED
    BY <1>4, <2>2, BodiesShrink DEF Awaits, InProgress
<1>5. CASE UNCHANGED <<status, fiber>>
  BY <1>5, BodiesShrink DEF Awaits, InProgress
<1>6. ASSUME NEW a \in Agent, Abort(a) PROVE OneBody'
  BY <1>4, <1>6 DEF Abort
<1>7. CASE AbortAllVisits
  BY <1>4, <1>5, <1>7 DEF AbortAllVisits
<1>8. CASE UNCHANGED vars
  BY <1>5, <1>8 DEF vars, runVars
<1>9. QED
  BY <1>1, <1>2, <1>3, <1>5, <1>6, <1>7, <1>8
     DEF Next, RecheckReturns, SlotSettles, SlotReleased, ChangeLimit, ObserversReturn, Sweep, AbortAll,
         AbortAllReturns, ClearCompleted, runVars

(* OneBody holds of every reachable state, if nobody resumes an agent      *)
(* while its stopped run unwinds.                                          *)
THEOREM OneBodyInvariant ==
  ASSUME "resume_unwinding" \notin Rash
  PROVE  Spec => []OneBody
<1>1. Init => OneBody
  BY DEF Init, OneBody, InProgress
<1>2. LifeInv /\ LimiterSound /\ OneBody /\ [Next]_vars => OneBody'
  BY BodyStep
<1>3. QED
  BY <1>1, <1>2, LifeInvariant, LimiterStaysSound, PTL DEF Spec

(* One child session is driven by one turn loop at a time: what resume's   *)
(* guard, which looks only at the current run's status, leaves to the      *)
(* surroundings is exactly to wait for a stopped run to unwind.            *)
THEOREM OneLoopAtATime ==
  ASSUME "resume_unwinding" \notin Rash
  PROVE  Spec => []OneLoopPerSession
<1>1. OneBody => OneLoopPerSession
  BY DEF OneBody, Awaits, InProgress, OneLoopPerSession
<1>2. QED
  BY <1>1, OneBodyInvariant, PTL

-----------------------------------------------------------------------------
(* Workspaces under careful surroundings.                                  *)

(* The inductive invariant: the workspace of an agent with a run under way *)
(* or queued has not been torn down, an agent that was never spawned has   *)
(* none, and the loop of a shutdown's abortAll() finds no body under way,  *)
(* for the shutdown waited for the bodies before it began.                 *)
WorkspaceKept(r) == Awaits(r) => workspace[r[1]] # "disposed"
UnbornHasNone(a) == current[a] = 0 => workspace[a] = "none"
ShutdownWaited == visiting # 0 /\ closing => \A a \in registered : ~Unwinding(a)

HeldInv ==
  /\ \A r \in Run : WorkspaceKept(r)
  /\ \A a \in Agent : UnbornHasNone(a)
  /\ ShutdownWaited

(* What an agent's runs are doing, in the words the handlers use.          *)
LEMMA NothingAwaits ==
  ASSUME LifeInv, NEW r \in Run, ~AgentActive(r[1]), ~Unwinding(r[1])
  PROVE  ~Awaits(r)
  BY QueuedIsActive DEF Awaits, Unwinding

(* A step that neither starts nor queues a run and leaves the workspaces.  *)
LEMMA HeldUntouched ==
  ASSUME LifeInv, HeldInv, UNCHANGED <<current, workspace>>,
         \A r \in Run : (InProgress(r)' => InProgress(r)) /\ (Awaits(r)' => Awaits(r)),
         visiting' # 0 /\ closing' => visiting # 0 /\ closing /\ registered' = registered
  PROVE  HeldInv'
<1>1. \A r \in Run : WorkspaceKept(r)'
  BY DEF HeldInv, WorkspaceKept
<1>2. \A a \in Agent : UnbornHasNone(a)'
  BY DEF HeldInv, UnbornHasNone
<1>3. ShutdownWaited'
  BY DEF HeldInv, ShutdownWaited, Unwinding
<1>4. QED
  BY <1>1, <1>2, <1>3 DEF HeldInv

(* Tearing down agents that are at rest pulls no directory out from under  *)
(* a run.                                                                  *)
LEMMA HeldTornDown ==
  ASSUME LifeInv, HeldInv, NEW gone \in SUBSET Agent, TearDown(gone),
         \A a \in gone : ~AgentActive(a) /\ ~Unwinding(a),
         UNCHANGED <<current, status, fiber>>, visiting' = 0
  PROVE  HeldInv'
<1>1. workspace' = [a \in Agent |->
         IF a \in gone /\ ~AgentActive(a) THEN TornDown(workspace[a]) ELSE workspace[a]]
  BY DEF TearDown
<1>2. ASSUME NEW r \in Run PROVE WorkspaceKept(r)'
  <2>1. r[1] \in Agent /\ (Awaits(r)' <=> Awaits(r))
    BY RunParts DEF Awaits, InProgress
  <2>2. CASE r[1] \in gone
    BY <2>1, <2>2, NothingAwaits DEF WorkspaceKept
  <2>3. CASE r[1] \notin gone
    BY <1>1, <2>1, <2>3 DEF HeldInv, WorkspaceKept
  <2>4. QED
    BY <2>2, <2>3
<1>3. \A a \in Agent : UnbornHasNone(a)'
  BY <1>1 DEF HeldInv, UnbornHasNone, TornDown
<1>4. QED
  BY <1>2, <1>3 DEF HeldInv, ShutdownWaited

(* A new run: its agent was never spawned, or could still be resumed.      *)
LEMMA HeldGrows ==
  ASSUME LifeInv, HeldInv, Rash = {}, NEW a \in Agent,
         \/ SpawnQueued(a) \/ SpawnNow(a) \/ SpawnCancelled(a)
         \/ ResumeQueued(a) \/ ResumeNow(a)
  PROVE  HeldInv'
<1> DEFINE s == <<a, current[a] + 1>>
<1>0. MaxResumes \in Nat /\ current[a] \in 0 .. MaxResumes
  BY MaxResumesAssumption
     DEF LifeInv, LifeTypes, CurrentTyped, SpawnQueued, SpawnNow, SpawnCancelled, NextToSpawn,
         ResumeQueued, ResumeNow, ResumeAllowed
<1>1. s \in Run /\ s[1] = a
  BY <1>0, RunMade
<1>2. /\ \E st \in Statuses : status' = [status EXCEPT ![s] = st]
      /\ fiber' = fiber \/ \E fb \in Fibers : fiber' = [fiber EXCEPT ![s] = fb]
  BY DEF LoopEnteredAs, SpawnQueued, SpawnNow, SpawnCancelled, NextToSpawn, ResumeQueued, ResumeNow, BeginInitial,
         BeginResumed, Statuses, Fibers
<1>3. /\ workspace' = workspace /\ visiting' = 0
      /\ current' = [current EXCEPT ![a] = @ + 1]
  BY DEF SpawnQueued, SpawnNow, SpawnCancelled, NextToSpawn, ResumeQueued, ResumeNow, ResumeAllowed,
         CallerActs, resourceVars, stackVars, LifeInv, LifeTypes, CurrentTyped
<1>4. workspace[a] # "disposed"
  BY DEF SpawnQueued, SpawnNow, SpawnCancelled, NextToSpawn, ResumeQueued, ResumeNow, ResumeAllowed,
         Resumable, HeldInv, UnbornHasNone
<1> HIDE DEF s
<1>5. \A r \in Run : r # s => fiber'[r] = fiber[r] /\ status'[r] = status[r]
  BY <1>1, <1>2 DEF LifeInv, LifeTypes
<1>6. \A r \in Run : WorkspaceKept(r)'
  BY <1>1, <1>3, <1>4, <1>5 DEF HeldInv, WorkspaceKept, Awaits, InProgress
<1>7. \A b \in Agent : UnbornHasNone(b)'
  BY <1>0, <1>3 DEF HeldInv, UnbornHasNone, LifeInv, LifeTypes, CurrentTyped
<1>8. QED
  BY <1>3, <1>6, <1>7 DEF HeldInv, ShutdownWaited

(* A body's callback: only its end tears the workspace down, and nothing   *)
(* else of its agent is under way or queued then.                          *)
LEMMA HeldRunStep ==
  ASSUME LifeInv, HeldInv, OneBody, NEW s \in Run, RunStep(s)
  PROVE  HeldInv'
<1>1. s[1] \in Agent /\ s[2] \in 1 .. MaxResumes + 1 /\ InProgress(s) /\ RunInv(s)
  BY RunParts DEF LoopEnteredAs, InTurnLoop, LifeInv, RunStep, Prepared, SessionCreated, LoopReturns, BodyThrows, InProgress
<1>2. current[s[1]] # 0
  BY <1>1, MaxResumesAssumption DEF RunInv, LifeInv, LifeTypes, CurrentTyped
<1>3. /\ visiting' = 0 /\ current' = current
      /\ \E fb \in Fibers : fiber' = [fiber EXCEPT ![s] = fb]
      /\ status' = status \/ status' = [status EXCEPT ![s] = Transition(@, "ended")]
      /\ workspace' = workspace \/ \E ws \in {"none", "prepared", "disposed"} :
                                     workspace' = [workspace EXCEPT ![s[1]] = ws]
      /\ Awaits(s)' => workspace'[s[1]] # "disposed"
  <2>0. /\ status \in [Run -> Statuses] /\ fiber \in [Run -> Fibers]
        /\ workspace \in [Agent -> {"none", "prepared", "disposed"}]
    BY DEF LifeInv, LifeTypes
  <2>1. CASE Prepared(s)
    BY <1>1, <2>0, <2>1 DEF Prepared, Idle, stackVars, Fibers
  <2>2. CASE SessionCreated(s)
    BY <1>1, <2>0, <2>2 DEF LoopEnteredAs, SessionCreated, Idle, stackVars, Fibers, HeldInv, WorkspaceKept, Awaits
  <2>3. CASE (\E asked \in BOOLEAN : LoopReturns(s, asked)) \/ BodyThrows(s)
    <3>1. /\ visiting' = 0 /\ current' = current
          /\ fiber' = [fiber EXCEPT ![s] = "over"]
          /\ status' = [status EXCEPT ![s] = Transition(@, "ended")]
          /\ \/ workspace' = workspace
             \/ workspace' = [workspace EXCEPT ![s[1]] = TornDown(@)]
      BY <1>1, <2>0, <2>3 DEF InTurnLoop, LoopReturns, BodyThrows, Fail, Idle
    <3>2. ~Awaits(s)'
      BY <2>0, <3>1 DEF Awaits, InProgress, Transition
    <3>3. TornDown(workspace[s[1]]) \in {"none", "prepared", "disposed"}
      BY <1>1, <2>0 DEF TornDown
    <3>4. QED
      BY <2>0, <3>1, <3>2, <3>3 DEF Fibers
  <2>4. QED
    BY <2>1, <2>2, <2>3 DEF RunStep
<1>4. ASSUME NEW r \in Run PROVE WorkspaceKept(r)'
  <2>1. CASE r = s
    BY <1>3, <2>1 DEF WorkspaceKept
  <2>2. CASE r # s
    <3>1. Awaits(r)' <=> Awaits(r)
      BY <1>3, <2>2 DEF Awaits, InProgress, LifeInv, LifeTypes
    <3>2. Awaits(r) => r[1] # s[1]
      BY <1>1, <2>2 DEF OneBody
    <3>3. r[1] # s[1] => workspace'[r[1]] = workspace[r[1]]
      BY <1>3, RunParts DEF LifeInv, LifeTypes
    <3>4. QED
      BY <3>1, <3>2, <3>3 DEF HeldInv, WorkspaceKept
  <2>3. QED
    BY <2>1, <2>2
<1>5. ASSUME NEW b \in Agent PROVE UnbornHasNone(b)'
  BY <1>2, <1>3 DEF HeldInv, UnbornHasNone, LifeInv, LifeTypes
<1>6. QED
  BY <1>3, <1>4, <1>5 DEF HeldInv, ShutdownWaited

(* Every step preserves HeldInv. *)
LEMMA HeldStep ==
  ASSUME LifeInv, LimiterSound, QueueInv, OneBody, HeldInv, Rash = {}, [Next]_vars
  PROVE  HeldInv'
<1>0. status \in [Run -> Statuses] /\ fiber \in [Run -> Fibers]
  BY DEF LifeInv, LifeTypes
<1>1. ASSUME NEW a \in Agent,
             \/ SpawnQueued(a) \/ SpawnNow(a) \/ SpawnCancelled(a)
             \/ ResumeQueued(a) \/ ResumeNow(a)
      PROVE  HeldInv'
  BY <1>1, HeldGrows
<1>2. CASE StartQueued
  <2> DEFINE s == Head(pending)
  <2>1. /\ s \in Run
        /\ MayStart(s) => status[s] = "queued"
    BY <1>2, HeadStarts DEF StartQueued, Limiter!StartNext
  <2>2. visiting' = 0
    BY <1>2 DEF QueueInv, LoopAhead, StartQueued, Limiter!StartNext, stackVars
  <2>3. /\ current' = current /\ workspace' = workspace
        /\ status' = status \/ \E st \in Statuses : status' = [status EXCEPT ![s] = st]
        /\ \E fb \in Fibers : fiber' = [fiber EXCEPT ![s] = fb]
        /\ ~MayStart(s) => status' = status /\ fiber' = [fiber EXCEPT ![s] = "over"]
    BY <1>2 DEF LoopEnteredAs, StartQueued, BeginInitial, BeginResumed, Statuses, Fibers, resourceVars
  <2> HIDE DEF s
  <2>4. \A r \in Run : Awaits(r)' => Awaits(r)
    <3>1. \A r \in Run : r # s => fiber'[r] = fiber[r] /\ status'[r] = status[r]
      BY <1>0, <2>1, <2>3
    <3>2. CASE MayStart(s)
      BY <2>1, <3>1, <3>2 DEF Awaits, InProgress
    <3>3. CASE ~MayStart(s)
      BY <1>0, <2>1, <2>3, <3>1, <3>3 DEF Awaits, InProgress
    <3>4. QED
      BY <3>2, <3>3
  <2>5. QED
    BY <2>2, <2>3, <2>4 DEF HeldInv, WorkspaceKept, UnbornHasNone, ShutdownWaited
<1>3. ASSUME NEW s \in Run, RunStep(s) PROVE HeldInv'
  BY <1>3, HeldRunStep
<1>4. ASSUME UNCHANGED <<current, workspace, status, fiber>>,
             visiting' # 0 /\ closing' => visiting # 0 /\ closing /\ registered' = registered
      PROVE  HeldInv'
  BY <1>4, HeldUntouched DEF Awaits, InProgress
<1>5. CASE RecheckReturns \/ ObserversReturn \/ UNCHANGED vars
  BY <1>4, <1>5 DEF RecheckReturns, ObserversReturn, vars, managerVars, runVars, resourceVars, stackVars
<1>6. ASSUME NEW r \in Run, SlotSettles(r) \/ SlotReleased(r) PROVE HeldInv'
  BY <1>4, <1>6 DEF SlotSettles, SlotReleased, managerVars, runVars, resourceVars, stackVars
<1>7. ASSUME NEW n \in Limit, ChangeLimit(n) PROVE HeldInv'
  BY <1>4, <1>7 DEF ChangeLimit, managerVars, runVars, resourceVars, stackVars
<1>8. ASSUME NEW a \in Agent, StopCurrent(a) \/ UNCHANGED status, UNCHANGED <<current, workspace, fiber>>,
             visiting' # 0 /\ closing' => visiting # 0 /\ closing /\ registered' = registered
      PROVE  HeldInv'
  <2>1. status' = status \/ (Cur(a) \in Run /\ status' = [status EXCEPT ![Cur(a)] = "stopped"])
    BY <1>8, StopEffect DEF LifeInv, LifeTypes
  <2>2. \A r \in Run : status'[r] = "queued" => status[r] = "queued"
    BY <1>0, <2>1
  <2>3. QED
    BY <1>8, <2>2, HeldUntouched DEF Awaits, InProgress
<1>9. ASSUME NEW a \in Agent, Abort(a) PROVE HeldInv'
  BY <1>8, <1>9 DEF Abort, managerVars, resourceVars
<1>10. CASE AbortAllVisits
  <2>1. visiting \in Agent /\ visiting # 0 /\ (StopCurrent(visiting) \/ UNCHANGED status)
    BY <1>10 DEF AbortAllVisits, Agent
  <2>2. QED
    BY <1>8, <1>10, <2>1 DEF AbortAllVisits, managerVars, resourceVars
<1>11. ASSUME NEW shutdown \in BOOLEAN, AbortAll(shutdown) PROVE HeldInv'
  <2>1. UNCHANGED <<current, workspace, status, fiber, registered>>
        /\ (closing' => \A a \in registered : ~Unwinding(a))
    BY <1>11 DEF AbortAll, TeardownAllowed, managerVars, runVars, resourceVars
  <2>2. QED
    BY <2>1 DEF HeldInv, WorkspaceKept, UnbornHasNone, ShutdownWaited, Awaits, InProgress, Unwinding
<1>12. CASE AbortAllReturns
  <2>1. visiting = NumAgents + 1 /\ visiting # 0 /\ visiting' = 0 /\ UNCHANGED <<current, status, fiber>>
    BY <1>12, NumAgentsAssumption DEF AbortAllReturns, runVars
  <2>2. CASE closing
    <3>1. \A a \in registered : ~AgentActive(a) /\ ~Unwinding(a)
      BY <2>1, <2>2, NumAgentsAssumption DEF QueueInv, LoopAhead, HeldInv, ShutdownWaited, Agent, LifeInv, LifeTypes
    <3>2. registered \in SUBSET Agent /\ TearDown(registered)
      BY <1>12, <2>2 DEF AbortAllReturns, LifeInv, LifeTypes
    <3>3. QED
      BY <2>1, <3>1, <3>2, HeldTornDown
  <2>3. CASE ~closing
    BY <1>4, <1>12, <2>1, <2>3 DEF AbortAllReturns
  <2>4. QED
    BY <2>2, <2>3
<1>13. ASSUME NEW a \in Agent, Sweep(a) PROVE HeldInv'
  <2>1. {a} \in SUBSET Agent /\ TearDown({a}) /\ visiting' = 0 /\ UNCHANGED <<current, status, fiber>>
        /\ ~AgentActive(a) /\ ~Unwinding(a)
    BY <1>13 DEF Sweep, Kept, TeardownAllowed, Idle, runVars, stackVars
  <2>2. QED
    BY <2>1, HeldTornDown
<1>14. CASE ClearCompleted
  <2> DEFINE gone == {a \in registered : ~Kept(a)}
  <2>1. gone \in SUBSET Agent /\ TearDown(gone) /\ visiting' = 0 /\ UNCHANGED <<current, status, fiber>>
        /\ \A a \in gone : ~AgentActive(a) /\ ~Unwinding(a)
    BY <1>14 DEF ClearCompleted, Kept, TeardownAllowed, Idle, runVars, stackVars, LifeInv, LifeTypes
  <2> HIDE DEF gone
  <2>2. QED
    BY <2>1, HeldTornDown
<1>15. QED
  BY <1>1, <1>2, <1>3, <1>5, <1>6, <1>7, <1>9, <1>10, <1>11, <1>12, <1>13, <1>14 DEF Next

(* HeldInv holds of every reachable state under careful surroundings.      *)
THEOREM HeldInvariant ==
  ASSUME Rash = {}
  PROVE  Spec => []HeldInv
<1>1. Init => HeldInv
  BY DEF Init, HeldInv, WorkspaceKept, UnbornHasNone, ShutdownWaited, Awaits, InProgress
<1>2. LifeInv /\ LimiterSound /\ QueueInv /\ OneBody /\ HeldInv /\ [Next]_vars => HeldInv'
  BY HeldStep
<1>3. "call_in_abort_all" \notin Rash /\ "resume_unwinding" \notin Rash
  OBVIOUS
<1>4. Spec => []QueueInv
  BY <1>3, QueueInvariant
<1>5. Spec => []OneBody
  BY <1>3, OneBodyInvariant
<1>6. QED
  BY <1>1, <1>2, <1>4, <1>5, LifeInvariant, LimiterStaysSound, PTL DEF Spec

(* No turn loop runs in a workspace that has been torn down: neither the   *)
(* end of another run of its agent, nor the sweep, a session switch or the *)
(* shutdown pulls the directory out from under a live child.               *)
THEOREM WorkspaceStays ==
  ASSUME Rash = {}
  PROVE  Spec => []WorkspaceOutlivesLoop
<1>1. HeldInv => WorkspaceOutlivesLoop
  BY DEF HeldInv, WorkspaceKept, Awaits, InProgress, WorkspaceOutlivesLoop
<1>2. QED
  BY <1>1, HeldInvariant, PTL

-----------------------------------------------------------------------------
(* Nothing is left behind, under careful surroundings.                     *)

(* The inductive invariant: what is under way has a record; a live session *)
(* is one its record holds; a turn loop runs on a live session, and a      *)
(* queued resume will; and a workspace that no run uses is held with a     *)
(* session to re-enter it.                                                 *)
RecordReaches(a) ==
  /\ Unwinding(a) => a \in registered
  /\ session[a] = "live" => a \in registered /\ attached[a]
  /\ attached[a] /\ a \in registered => session[a] = "live"
  /\ workspace[a] = "prepared" => Unwinding(a) \/ session[a] = "live"

NeedsSession(r) == InTurnLoop(r) \/ (status[r] = "queued" /\ r[2] > 1)
LoopHasSession(r) == NeedsSession(r) => session[r[1]] = "live"

ReachInv == (\A a \in Agent : RecordReaches(a)) /\ \A r \in Run : LoopHasSession(r)

(* A step that leaves bodies, records and resources alone. *)
LEMMA ReachUntouched ==
  ASSUME ReachInv, UNCHANGED <<fiber, registered, session, attached, workspace>>,
         \A r \in Run : status'[r] = "queued" => status[r] = "queued"
  PROVE  ReachInv'
  BY DEF ReachInv, RecordReaches, LoopHasSession, NeedsSession, InTurnLoop, Unwinding, InProgress

(* The records that go are at rest, and their sessions and workspaces go   *)
(* with them.                                                              *)
LEMMA ReachTornDown ==
  ASSUME LifeInv, ReachInv, NEW gone \in SUBSET registered, TearDown(gone),
         \A a \in gone : ~AgentActive(a) /\ ~Unwinding(a),
         UNCHANGED <<fiber, status>>,
         \/ attached' = attached /\ registered' = registered \ gone
         \/ attached' = [a \in Agent |-> a \notin gone /\ attached[a]] /\ registered' = registered
  PROVE  ReachInv'
<1>0. /\ registered \subseteq Agent
      /\ attached \in [Agent -> BOOLEAN]
      /\ session \in [Agent -> {"none", "live", "disposed"}]
      /\ workspace \in [Agent -> {"none", "prepared", "disposed"}]
  BY DEF LifeInv, LifeTypes
<1>1. \A a \in Agent : Unwinding(a)' <=> Unwinding(a)
  BY DEF Unwinding, InProgress
<1>2. ASSUME NEW a \in Agent PROVE RecordReaches(a)'
  <2>1. RecordReaches(a)
    BY DEF ReachInv
  <2>2. CASE a \in gone
    <3>1. session'[a] = (IF attached[a] THEN "disposed" ELSE session[a]) /\ workspace'[a] = TornDown(workspace[a])
      BY <2>2 DEF TearDown
    <3>2. session'[a] # "live" /\ workspace'[a] # "prepared"
      BY <2>1, <3>1 DEF RecordReaches, TornDown
    <3>3. ~(attached'[a] /\ a \in registered')
      BY <2>2
    <3>4. QED
      BY <1>1, <2>2, <3>2, <3>3 DEF RecordReaches
  <2>3. CASE a \notin gone
    <3>1. session'[a] = session[a] /\ workspace'[a] = workspace[a]
      BY <2>3 DEF TearDown
    <3>2. (attached'[a] <=> attached[a]) /\ (a \in registered' <=> a \in registered)
      BY <1>0, <2>3
    <3>3. QED
      BY <1>1, <2>1, <3>1, <3>2 DEF RecordReaches
  <2>4. QED
    BY <2>2, <2>3
<1>3. ASSUME NEW r \in Run PROVE LoopHasSession(r)'
  <2>1. r[1] \in Agent /\ LoopHasSession(r)
    BY RunParts DEF ReachInv
  <2>2. InTurnLoop(r) => r[1] \notin gone
    BY DEF Unwinding, InProgress, InTurnLoop
  <2>3. status[r] = "queued" => r[1] \notin gone
    BY QueuedIsActive
  <2>4. QED
    BY <2>1, <2>2, <2>3 DEF TearDown, LoopHasSession, NeedsSession, InTurnLoop
<1>4. QED
  BY <1>2, <1>3 DEF ReachInv

(* A body begins for an agent with a record: a first one with no loop yet, *)
(* a resumed one on the session the resume found.                          *)
LEMMA ReachBegins ==
  ASSUME LifeInv, ReachInv, NEW s \in Run, s[1] \in registered',
         registered \subseteq registered', registered' \subseteq registered \cup {s[1]},
         s[1] \notin registered => ~attached[s[1]],
         UNCHANGED <<session, attached, workspace>>,
         fiber' = fiber \/ \E fb \in Fibers : fiber' = [fiber EXCEPT ![s] = fb],
         \A r \in Run : r # s => status'[r] = status[r],
         fiber[s] = "none",
         NeedsSession(s)' => session[s[1]] = "live"
  PROVE  ReachInv'
<1>0. fiber \in [Run -> Fibers]
  BY DEF LifeInv, LifeTypes
<1>1. \A r \in Run : r # s => fiber'[r] = fiber[r]
  BY <1>0
<1>2. ASSUME NEW a \in Agent PROVE RecordReaches(a)'
  <2>1. RecordReaches(a) /\ (Unwinding(a) => Unwinding(a)')
    BY <1>1 DEF ReachInv, Unwinding, InProgress
  <2>2. CASE a = s[1]
    BY <2>1, <2>2 DEF RecordReaches
  <2>3. CASE a # s[1]
    <3>1. Unwinding(a)' => Unwinding(a)
      BY <1>1, <2>3 DEF Unwinding, InProgress
    <3>2. QED
      BY <2>1, <2>3, <3>1 DEF RecordReaches
  <2>4. QED
    BY <2>2, <2>3
<1>3. \A r \in Run : LoopHasSession(r)'
  BY <1>1 DEF ReachInv, LoopHasSession, NeedsSession, InTurnLoop
<1>4. QED
  BY <1>2, <1>3 DEF ReachInv

(* Spawning gives the agent its record; a resume needs the record and the  *)
(* session it holds.                                                       *)
LEMMA ReachGrows ==
  ASSUME LifeInv, ReachInv, NEW a \in Agent,
         \/ SpawnQueued(a) \/ SpawnNow(a) \/ SpawnCancelled(a)
         \/ ResumeQueued(a) \/ ResumeNow(a)
  PROVE  ReachInv'
<1> DEFINE s == <<a, current[a] + 1>>
<1>0. MaxResumes \in Nat /\ current[a] \in 0 .. MaxResumes
  BY MaxResumesAssumption
     DEF LifeInv, LifeTypes, CurrentTyped, SpawnQueued, SpawnNow, SpawnCancelled, NextToSpawn,
         ResumeQueued, ResumeNow, ResumeAllowed
<1>1. s \in Run /\ s[1] = a /\ s[2] = current[a] + 1
  BY <1>0, RunMade
<1>2. fiber[s] = "none" /\ (current[a] = 0 => ~attached[a])
  <2>1. RunInv(s) /\ status[s] = "unborn"
    BY <1>0, <1>1 DEF LifeInv, RunInv
  <2>2. QED
    BY <1>1, <2>1 DEF RunInv
<1>3. /\ fiber' = fiber \/ \E fb \in Fibers : fiber' = [fiber EXCEPT ![s] = fb]
      /\ \E st \in Statuses : status' = [status EXCEPT ![s] = st]
  BY DEF LoopEnteredAs, SpawnQueued, SpawnNow, SpawnCancelled, NextToSpawn, ResumeQueued, ResumeNow, BeginInitial,
         BeginResumed, Fibers, Statuses
<1>a. \A r \in Run : r # s => status'[r] = status[r]
  BY <1>1, <1>3 DEF LifeInv, LifeTypes
<1>4. CASE SpawnQueued(a) \/ SpawnNow(a) \/ SpawnCancelled(a)
  <2>1. /\ registered' = registered \cup {a} /\ current[a] = 0
        /\ UNCHANGED <<session, attached, workspace>>
    BY <1>4 DEF SpawnQueued, SpawnNow, SpawnCancelled, NextToSpawn, resourceVars
  <2>2. fiber'[s] \notin {"looping", "returning"} /\ s[2] = 1
    BY <1>1, <1>2, <1>4, <2>1 DEF SpawnQueued, SpawnNow, SpawnCancelled, BeginInitial, LifeInv, LifeTypes, InTurnLoop
  <2> HIDE DEF s
  <2>3. PICK r \in Run : r = s
    BY <1>1
  <2>4. /\ r[1] \in registered' /\ registered' \subseteq registered \cup {r[1]} /\ registered \subseteq registered'
        /\ r[1] \notin registered => ~attached[r[1]]
    BY <1>1, <1>2, <2>1, <2>3
  <2>5. ~NeedsSession(r)'
    BY <2>2, <2>3 DEF NeedsSession, InTurnLoop
  <2>6. /\ fiber' = fiber \/ \E fb \in Fibers : fiber' = [fiber EXCEPT ![r] = fb]
        /\ \A q \in Run : q # r => status'[q] = status[q]
        /\ fiber[r] = "none"
    BY <1>2, <1>3, <1>a, <2>3
  <2>7. QED
    BY <2>1, <2>3, <2>4, <2>5, <2>6, ReachBegins
<1>5. CASE ResumeQueued(a) \/ ResumeNow(a)
  <2>1. /\ registered' = registered /\ a \in registered /\ attached[a]
        /\ UNCHANGED <<session, attached, workspace>>
    BY <1>5 DEF ResumeQueued, ResumeNow, ResumeAllowed, Resumable, managerVars, resourceVars
  <2>2. session[a] = "live"
    BY <2>1 DEF ReachInv, RecordReaches
  <2> HIDE DEF s
  <2>3. s[1] \in registered /\ session[s[1]] = "live"
    BY <1>1, <2>1, <2>2
  <2>4. QED
    BY <1>1, <1>2, <1>3, <1>a, <2>1, <2>3, ReachBegins
<1>6. QED
  BY <1>4, <1>5

(* A thunk starts a body of an agent that has a record, and one that loops *)
(* at once is a resume's: its agent's first run has begun with a session.  *)
LEMMA ReachStarts ==
  ASSUME LifeInv, LimiterSound, QueueInv, ReachInv, StartQueued
  PROVE  ReachInv'
<1>1. PICK s \in Run :
        /\ s = Head(pending) /\ fiber[s] = "none"
        /\ MayStart(s) => status[s] = "queued"
  BY HeadStarts DEF StartQueued, Limiter!StartNext
<1>2. s[1] \in Agent /\ s[2] \in 1 .. MaxResumes + 1
  BY <1>1, RunParts
<1>3. UNCHANGED <<registered, session, attached, workspace>>
  BY DEF StartQueued, managerVars, resourceVars
<1>4. CASE MayStart(s)
  <2>1. s[1] \in registered
    BY <1>1, <1>2, <1>4, QueuedIsActive DEF QueueInv, RecordHeld
  <2>2. \E fb \in Fibers : fiber' = [fiber EXCEPT ![s] = fb]
    BY <1>1, <1>4 DEF LoopEnteredAs, StartQueued, BeginInitial, BeginResumed, Fibers
  <2>3. InTurnLoop(s)' => s[2] # 1
    BY <1>1, <1>4 DEF InTurnLoop, StartQueued, BeginInitial, LifeInv, LifeTypes
  <2>4. \E st \in Statuses : status' = [status EXCEPT ![s] = st]
    BY <1>1, <1>4 DEF LoopEnteredAs, StartQueued, BeginInitial, BeginResumed, Statuses
  <2>5. \A r \in Run : r # s => status'[r] = status[r]
    BY <1>1, <2>4 DEF LifeInv, LifeTypes
  <2>6. InTurnLoop(s)' \/ s[2] > 1 => session[s[1]] = "live"
    BY <1>1, <1>2, <1>4, <2>3, MaxResumesAssumption DEF ReachInv, LoopHasSession, NeedsSession, InTurnLoop
  <2>7. registered' = registered /\ (NeedsSession(s)' => session[s[1]] = "live")
    BY <1>3, <2>6 DEF NeedsSession, InTurnLoop
  <2>8. QED
    BY <1>1, <1>3, <2>1, <2>2, <2>5, <2>7, ReachBegins
<1>5. CASE ~MayStart(s)
  <2>1. fiber' = [fiber EXCEPT ![s] = "over"] /\ status' = status
    BY <1>1, <1>5 DEF StartQueued
  <2>2. \A r \in Run : (InTurnLoop(r)' <=> InTurnLoop(r)) /\ (InProgress(r)' <=> InProgress(r))
    BY <1>1, <2>1 DEF InProgress, InTurnLoop, LifeInv, LifeTypes
  <2>3. \A a \in Agent : Unwinding(a)' <=> Unwinding(a)
    BY <2>2 DEF Unwinding
  <2>4. QED
    BY <1>3, <2>1, <2>2, <2>3 DEF ReachInv, RecordReaches, LoopHasSession, NeedsSession, InTurnLoop
<1>6. QED
  BY <1>4, <1>5

(* A body's callback: the session it creates is its agent's, which has a   *)
(* record; and the end of a body leaves a workspace only for a resume that *)
(* answers its question, on the session it looped on.                      *)
LEMMA ReachRunStep ==
  ASSUME LifeInv, ReachInv, NEW s \in Run, RunStep(s)
  PROVE  ReachInv'
<1>0. /\ fiber \in [Run -> Fibers] /\ status \in [Run -> Statuses]
      /\ attached \in [Agent -> BOOLEAN]
      /\ session \in [Agent -> {"none", "live", "disposed"}]
      /\ workspace \in [Agent -> {"none", "prepared", "disposed"}]
  BY DEF LifeInv, LifeTypes
<1>1. s[1] \in Agent /\ InProgress(s) /\ registered' = registered
  BY RunParts DEF LoopEnteredAs, InTurnLoop, RunStep, Prepared, SessionCreated, LoopReturns, BodyThrows, Fail, InProgress, managerVars
<1>2. Unwinding(s[1]) /\ s[1] \in registered
  BY <1>1 DEF ReachInv, RecordReaches, Unwinding
<1>3. /\ \E fb \in Fibers : fiber' = [fiber EXCEPT ![s] = fb]
      /\ status' = status \/ status' = [status EXCEPT ![s] = Transition(@, "ended")]
      /\ \A a \in Agent : a # s[1] =>
           session'[a] = session[a] /\ attached'[a] = attached[a] /\ workspace'[a] = workspace[a]
  BY <1>0, <1>1 DEF LoopEnteredAs, InTurnLoop, RunStep, Prepared, SessionCreated, LoopReturns, BodyThrows, Fail, Fibers
<1>4. /\ \A r \in Run : r # s => fiber'[r] = fiber[r]
      /\ \A r \in Run : status'[r] = "queued" => status[r] = "queued"
  BY <1>0, <1>3 DEF Transition
<1>5. ASSUME NEW a \in Agent, a # s[1] PROVE RecordReaches(a)'
  <2>1. Unwinding(a)' <=> Unwinding(a)
    BY <1>4, <1>5 DEF Unwinding, InProgress
  <2>2. QED
    BY <1>1, <1>3, <1>5, <2>1 DEF ReachInv, RecordReaches
<1>6. ASSUME NEW r \in Run, r[1] # s[1] PROVE LoopHasSession(r)'
  <2>1. r[1] \in Agent /\ LoopHasSession(r)
    BY RunParts DEF ReachInv
  <2>2. QED
    BY <1>3, <1>4, <1>6, <2>1 DEF LoopHasSession, NeedsSession, InTurnLoop
<1>7. CASE Prepared(s)
  <2>1. fiber'[s] = "creating" /\ session' = session /\ attached' = attached
    BY <1>0, <1>7 DEF Prepared
  <2>2. RecordReaches(s[1])'
    BY <1>1, <1>2, <2>1 DEF ReachInv, RecordReaches, Unwinding, InProgress
  <2>3. \A r \in Run : LoopHasSession(r)'
    BY <1>4, <1>7, <2>1 DEF ReachInv, LoopHasSession, NeedsSession, InTurnLoop, Prepared
  <2>4. QED
    BY <1>5, <2>2, <2>3 DEF ReachInv
<1>8. CASE SessionCreated(s)
  <2>1. InTurnLoop(s)' /\ session'[s[1]] = "live" /\ attached'[s[1]]
    BY <1>0, <1>1, <1>8 DEF SessionCreated, LoopEnteredAs, InTurnLoop
  <2>2. RecordReaches(s[1])'
    BY <1>1, <1>2, <2>1 DEF RecordReaches, Unwinding, InProgress
  <2>3. \A r \in Run : LoopHasSession(r)'
    BY <1>6, <2>1 DEF LoopHasSession
  <2>4. QED
    BY <1>5, <2>2, <2>3 DEF ReachInv
<1>9. CASE (\E asked \in BOOLEAN : LoopReturns(s, asked)) \/ BodyThrows(s)
  <2>1. /\ fiber'[s] = "over" /\ session' = session /\ attached' = attached
        /\ workspace'[s[1]] = TornDown(workspace[s[1]]) \/ (InTurnLoop(s) /\ workspace' = workspace)
    BY <1>0, <1>1, <1>9 DEF InTurnLoop, LoopReturns, BodyThrows, Fail
  <2>2. workspace'[s[1]] = "prepared" => session[s[1]] = "live"
    BY <2>1 DEF TornDown, ReachInv, LoopHasSession, NeedsSession, InTurnLoop
  <2>3. RecordReaches(s[1])'
    BY <1>1, <1>2, <2>1, <2>2 DEF ReachInv, RecordReaches
  <2>4. status'[s] # "queued"
    BY <1>0, <1>9 DEF InTurnLoop, LoopReturns, BodyThrows, Fail, Transition
  <2>5. \A r \in Run : LoopHasSession(r)'
    BY <1>4, <2>1, <2>4 DEF ReachInv, LoopHasSession, NeedsSession, InTurnLoop
  <2>6. QED
    BY <1>5, <2>3, <2>5 DEF ReachInv
<1>10. QED
  BY <1>7, <1>8, <1>9 DEF RunStep

(* Every step preserves ReachInv. *)
LEMMA ReachStep ==
  ASSUME LifeInv, LimiterSound, QueueInv, HeldInv, ReachInv, Rash = {}, [Next]_vars
  PROVE  ReachInv'
<1>0. status \in [Run -> Statuses] /\ registered \subseteq Agent /\ attached \in [Agent -> BOOLEAN]
  BY DEF LifeInv, LifeTypes
<1>1. ASSUME NEW a \in Agent,
             \/ SpawnQueued(a) \/ SpawnNow(a) \/ SpawnCancelled(a)
             \/ ResumeQueued(a) \/ ResumeNow(a)
      PROVE  ReachInv'
  BY <1>1, ReachGrows
<1>2. CASE StartQueued
  BY <1>2, ReachStarts
<1>3. ASSUME NEW s \in Run, RunStep(s) PROVE ReachInv'
  BY <1>3, ReachRunStep
<1>4. ASSUME UNCHANGED <<fiber, status, registered, session, attached, workspace>> PROVE ReachInv'
  BY <1>4, ReachUntouched
<1>5. CASE RecheckReturns \/ ObserversReturn \/ UNCHANGED vars
  BY <1>4, <1>5 DEF RecheckReturns, ObserversReturn, vars, managerVars, runVars, resourceVars
<1>6. ASSUME NEW r \in Run, SlotSettles(r) \/ SlotReleased(r) PROVE ReachInv'
  BY <1>4, <1>6 DEF SlotSettles, SlotReleased, managerVars, runVars, resourceVars
<1>7. ASSUME NEW n \in Limit, ChangeLimit(n) PROVE ReachInv'
  BY <1>4, <1>7 DEF ChangeLimit, managerVars, runVars, resourceVars
<1>8. ASSUME NEW shutdown \in BOOLEAN, AbortAll(shutdown) PROVE ReachInv'
  BY <1>4, <1>8 DEF AbortAll, managerVars, runVars, resourceVars
<1>9. ASSUME NEW a \in Agent, StopCurrent(a) \/ UNCHANGED status,
             UNCHANGED <<fiber, registered, session, attached, workspace>>
      PROVE  ReachInv'
  <2>1. status' = status \/ (Cur(a) \in Run /\ status' = [status EXCEPT ![Cur(a)] = "stopped"])
    BY <1>9, StopEffect DEF LifeInv, LifeTypes
  <2>2. \A r \in Run : status'[r] = "queued" => status[r] = "queued"
    BY <1>0, <2>1
  <2>3. QED
    BY <1>9, <2>2, ReachUntouched
<1>10. ASSUME NEW a \in Agent, Abort(a) PROVE ReachInv'
  BY <1>9, <1>10 DEF Abort, managerVars, resourceVars
<1>11. CASE AbortAllVisits
  <2>1. visiting \in Agent /\ (StopCurrent(visiting) \/ UNCHANGED status)
    BY <1>11 DEF AbortAllVisits
  <2>2. QED
    BY <1>9, <1>11, <2>1 DEF AbortAllVisits, managerVars, resourceVars
<1>12. CASE AbortAllReturns
  <2>1. visiting = NumAgents + 1 /\ visiting # 0 /\ UNCHANGED <<fiber, status, attached>>
    BY <1>12, NumAgentsAssumption DEF AbortAllReturns, runVars
  <2>2. CASE closing
    <3>1. \A a \in registered : ~AgentActive(a) /\ ~Unwinding(a)
      BY <1>0, <2>1, <2>2, NumAgentsAssumption DEF QueueInv, LoopAhead, HeldInv, ShutdownWaited, Agent
    <3>2. registered \in SUBSET registered /\ TearDown(registered) /\ registered' = registered \ registered
      BY <1>12, <2>2 DEF AbortAllReturns
    <3>3. QED
      BY <2>1, <3>1, <3>2, ReachTornDown
  <2>3. CASE ~closing
    BY <1>4, <1>12, <2>1, <2>3 DEF AbortAllReturns
  <2>4. QED
    BY <2>2, <2>3
<1>13. ASSUME NEW a \in Agent, Sweep(a) PROVE ReachInv'
  <2>1. /\ {a} \in SUBSET registered /\ TearDown({a}) /\ UNCHANGED <<fiber, status, registered>>
        /\ ~AgentActive(a) /\ ~Unwinding(a)
        /\ attached' = [attached EXCEPT ![a] = FALSE]
    BY <1>13 DEF Sweep, Kept, TeardownAllowed, managerVars, runVars
  <2>2. attached' = [b \in Agent |-> b \notin {a} /\ attached[b]]
    BY <1>0, <2>1
  <2>3. QED
    BY <2>1, <2>2, ReachTornDown
<1>14. CASE ClearCompleted
  <2> DEFINE gone == {a \in registered : ~Kept(a)}
  <2>1. /\ gone \in SUBSET registered /\ TearDown(gone) /\ UNCHANGED <<fiber, status, attached>>
        /\ registered' = registered \ gone
        /\ \A a \in gone : ~AgentActive(a) /\ ~Unwinding(a)
    BY <1>14 DEF ClearCompleted, Kept, TeardownAllowed, runVars
  <2> HIDE DEF gone
  <2>2. QED
    BY <2>1, ReachTornDown
<1>15. QED
  BY <1>1, <1>2, <1>3, <1>5, <1>6, <1>7, <1>8, <1>10, <1>11, <1>12, <1>13, <1>14 DEF Next

(* ReachInv holds of every reachable state under careful surroundings.     *)
THEOREM ReachInvariant ==
  ASSUME Rash = {}
  PROVE  Spec => []ReachInv
<1>1. Init => ReachInv
  BY DEF Init, ReachInv, RecordReaches, LoopHasSession, NeedsSession, InTurnLoop, Unwinding, InProgress
<1>2. LifeInv /\ LimiterSound /\ QueueInv /\ HeldInv /\ ReachInv /\ [Next]_vars => ReachInv'
  BY ReachStep
<1>3. Spec => []QueueInv
  BY QueueInvariant
<1>4. Spec => []HeldInv
  BY HeldInvariant
<1>5. QED
  BY <1>1, <1>2, <1>3, <1>4, LifeInvariant, LimiterStaysSound, PTL DEF Spec

(* A workspace outlives its run only for a question the agent can still be *)
(* resumed to answer: it never outlives the record or the session that     *)
(* could re-enter it.                                                      *)
THEOREM WorkspacesAreReachable ==
  ASSUME Rash = {}
  PROVE  Spec => []HeldWorkspaceReachable
<1>1. ReachInv => HeldWorkspaceReachable
  BY DEF ReachInv, RecordReaches, HeldWorkspaceReachable
<1>2. QED
  BY <1>1, ReachInvariant, PTL

(* A session whose record is gone and whose runs are over has been         *)
(* disposed: the disposed event always fires.                              *)
THEOREM SessionsAreReachable ==
  ASSUME Rash = {}
  PROVE  Spec => []NoOrphanSession
<1>1. ReachInv => NoOrphanSession
  BY DEF ReachInv, RecordReaches, NoOrphanSession
<1>2. QED
  BY <1>1, ReachInvariant, PTL
=============================================================================
