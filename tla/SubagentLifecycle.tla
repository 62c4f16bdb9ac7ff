-------------------------- MODULE SubagentLifecycle --------------------------
(***************************************************************************)
(* Subagents, their runs, sessions and workspaces under the manager        *)
(* (pi-subagents/src/lifecycle: subagent.ts, subagent-run.ts,              *)
(* subagent-manager.ts, workspace-bracket.ts, and the dispose of           *)
(* subagent-session.ts), composed with the ConcurrencyLimiter.             *)
(*                                                                         *)
(* A run is an async function: `fiber` is the await it is suspended at,    *)
(* and each of its steps is one callback.  Synchronous code that calls out *)
(* is split where another party gets to act:                               *)
(*   - `recheck` (of the limiter): recheck() starts runs one at a time;    *)
(*   - `emitting`: an onRunFinished observer is running, and a consumer of *)
(*     the event may call spawn or resume from inside it;                  *)
(*   - `visiting`: abortAll() is between two records of its loop.          *)
(* Timers, promise callbacks and user calls need all three to be at rest.  *)
(***************************************************************************)
EXTENDS Naturals, Sequences, FiniteSets

CONSTANTS
  NumAgents,  \* agents are numbered in the order they are spawned
  MaxResumes, \* bound: resumes over all agents
  Limit,      \* the values maxConcurrent may take
  Rash        \* what the surroundings do at awkward moments: see RashKinds

(***************************************************************************)
(* The code accepts all four; what it guarantees depends on them.          *)
(*   resume_unwinding: an agent is resumed after abort() has marked it     *)
(*     stopped and before its turn loop has returned.                      *)
(*   sweep_unwinding: the retention sweep reaches it in that window.       *)
(*   teardown_unwinding: a session switch or the shutdown tears it down in *)
(*     that window.                                                        *)
(*   call_in_abort_all: a consumer spawns or resumes an agent from a       *)
(*     completion event that abortAll() emits.                             *)
(***************************************************************************)
RashKinds ==
  {"resume_unwinding", "sweep_unwinding", "teardown_unwinding", "call_in_abort_all"}

ASSUME NumAgentsAssumption == NumAgents \in Nat \ {0}
ASSUME MaxResumesAssumption == MaxResumes \in Nat
ASSUME LifecycleLimitAssumption == Limit \subseteq Nat \ {0} /\ Limit # {}
ASSUME RashAssumption == Rash \subseteq RashKinds

Agent == 1 .. NumAgents
Run == Agent \X (1 .. MaxResumes + 1)

VARIABLES
  limit, active, pending, slot, recheck,   \* the limiter's
  registered,  \* manager.agents: the agents with a record
  closed,      \* the manager has been disposed
  current,     \* the index of the agent's current run; 0 before its spawn
  status,      \* run -> its status
  fiber,       \* run -> the await its async body is suspended at
  finished,    \* run -> how many times onRunFinished has reported it
  session,     \* agent -> its child session
  attached,    \* agent -> `subagentSession` is set
  workspace,   \* agent -> what its workspace bracket holds
  emitting,    \* an onRunFinished observer is on the stack
  visiting,    \* the record abortAll() is at; 0 when it is not running
  closing      \* that abortAll() is the shutdown handler's

Limiter == INSTANCE ConcurrencyLimiter WITH Task <- Run

limiterVars == <<limit, active, pending, slot, recheck>>
managerVars == <<registered, closed>>
runVars == <<current, status, fiber, finished>>
resourceVars == <<session, attached, workspace>>
stackVars == <<emitting, visiting, closing>>
vars == <<limiterVars, managerVars, runVars, resourceVars, stackVars>>

(* "ended" stands for completed, aborted and error: a run that ended by    *)
(* itself.  What the three tell the parent is OutcomeDelivery's business.  *)
Statuses == {"unborn", "queued", "running", "ended", "stopped"}
Fibers == {"none", "preparing", "creating", "looping", "returning", "over"}

Cur(a) == <<a, current[a]>>
Resumes == Cardinality({r \in Run : r[2] > 1 /\ status[r] # "unborn"})
Active(r) == status[r] \in {"queued", "running"}
Terminal(r) == status[r] \in {"ended", "stopped"}
InTurnLoop(r) == fiber[r] \in {"looping", "returning"}
InProgress(r) == fiber[r] \in {"preparing", "creating", "looping", "returning"}
Unwinding(a) == \E r \in Run : r[1] = a /\ InProgress(r)
Stopping(a) == \E r \in Run : r[1] = a /\ InProgress(r) /\ ~Active(r)
AgentActive(a) == current[a] # 0 /\ Active(Cur(a))

Init ==
  /\ Limiter!LimiterInit
  /\ registered = {}
  /\ closed = FALSE
  /\ current = [a \in Agent |-> 0]
  /\ status = [r \in Run |-> "unborn"]
  /\ fiber = [r \in Run |-> "none"]
  /\ finished = [r \in Run |-> 0]
  /\ session = [a \in Agent |-> "none"]
  /\ attached = [a \in Agent |-> FALSE]
  /\ workspace = [a \in Agent |-> "none"]
  /\ emitting = FALSE
  /\ visiting = 0
  /\ closing = FALSE

(* Nothing is on the stack: a timer, a callback or a user call may run. *)
Idle == Limiter!Quiet /\ ~emitting /\ visiting = 0

(* Whoever calls the manager: user code when the stack is empty, or a      *)
(* consumer of a completion event from inside the event.                   *)
CallerActs ==
  /\ Limiter!Quiet
  /\ Idle \/ emitting
  /\ "call_in_abort_all" \in Rash \/ visiting = 0

-----------------------------------------------------------------------------
(* Bugs the properties must catch, each in place of a definition below. *)

ResumableWhileRunning(a) == attached[a] /\ workspace[a] # "disposed"
ResumableAfterTeardown(a) ==
  /\ status[Cur(a)] # "running"
  /\ ~(status[Cur(a)] = "queued" /\ current[a] > 1)
  /\ attached[a]
StopRunningOnly(a) ==
  /\ status' = [status EXCEPT ![Cur(a)] = IF @ = "running" THEN "stopped" ELSE @]
  /\ UNCHANGED <<finished, emitting>>
StopAndReport(a) ==
  LET r == Cur(a) IN
  IF AgentActive(a)
  THEN /\ status' = [status EXCEPT ![r] = "stopped"]
       /\ finished' = [finished EXCEPT ![r] = @ + 1]
       /\ emitting' = TRUE
  ELSE UNCHANGED <<status, finished, emitting>>

-----------------------------------------------------------------------------
(* Helpers: the small decisions and transitions the handlers share. *)

(* guardedRun() asks the record, a resume's thunk asks the run it was made for. *)
MayStart(r) == IF r[2] = 1 THEN Active(Cur(r[1])) ELSE Active(r)

(* markCompleted, markAborted and markError leave a stopped run stopped. *)
Transition(old, new) == IF old = "stopped" THEN old ELSE new

(* WorkspaceBracket.dispose(): gone for good once it held something. *)
TornDown(ws) == IF ws = "prepared" THEN "disposed" ELSE ws

(* Subagent.resumeRefusal = undefined *)
Resumable(a) ==
  /\ status[Cur(a)] # "running"
  /\ ~(status[Cur(a)] = "queued" /\ current[a] > 1)
  /\ attached[a]
  /\ workspace[a] # "disposed"

(* The promise of a thunk settles when the run's async body has returned. *)
RunReturned(r) == fiber[r] = "over"

(* sweep() and clearCompleted() pass over a record whose run is active. *)
Kept(a) == AgentActive(a)

(* Whether the surroundings tear agent a down now: the careful ones let an *)
(* unwinding run finish first.                                             *)
TeardownAllowed(kind, a) == kind \in Rash \/ ~Unwinding(a)

(* disposeSession() and releaseSession(), for each agent in `gone`: the    *)
(* workspace unless the record still reads active, then the session.       *)
TearDown(gone) ==
  /\ workspace' = [a \in Agent |->
       IF a \in gone /\ ~AgentActive(a) THEN TornDown(workspace[a]) ELSE workspace[a]]
  /\ session' = [a \in Agent |->
       IF a \in gone /\ attached[a] THEN "disposed" ELSE session[a]]

(* Report run r's end to the observers. *)
Report(r) ==
  /\ finished' = [finished EXCEPT ![r] = @ + 1]
  /\ emitting' = TRUE

(* promptForAnswer(): a run whose signal has fired before its prompt takes *)
(* no turn and only returns.                                               *)
LoopEnteredAs(st) == IF st = "stopped" THEN "returning" ELSE "looping"

(* A resume is synchronous up to the turn loop; one whose caller has       *)
(* already cancelled is stopped as it starts.                              *)
BeginResumed(r) ==
  \E st \in {"running", "stopped"} :
    /\ status' = [status EXCEPT ![r] = st]
    /\ fiber' = [fiber EXCEPT ![r] = LoopEnteredAs(st)]

(* An initial run awaits its workspace, or its session where there is no   *)
(* workspace provider.                                                     *)
BeginInitial(r) ==
  /\ status' = [status EXCEPT ![r] = "running"]
  /\ \E first \in {"preparing", "creating"} : fiber' = [fiber EXCEPT ![r] = first]

-----------------------------------------------------------------------------
(* Spawning. *)

NextToSpawn(a) ==
  /\ CallerActs
  /\ ~closed
  /\ current[a] = 0
  /\ \A b \in Agent : b < a => current[b] # 0

(* create() of a background agent: it waits on the limiter. *)
SpawnQueued(a) ==
  /\ NextToSpawn(a)
  /\ registered' = registered \cup {a}
  /\ current' = [current EXCEPT ![a] = 1]
  /\ status' = [status EXCEPT ![<<a, 1>>] = "queued"]
  /\ Limiter!Schedule(<<a, 1>>)
  /\ UNCHANGED <<closed, fiber, finished, resourceVars, stackVars>>

(* create() of a foreground (or queue-bypassing) agent: it starts at once. *)
SpawnNow(a) ==
  /\ NextToSpawn(a)
  /\ registered' = registered \cup {a}
  /\ current' = [current EXCEPT ![a] = 1]
  /\ BeginInitial(<<a, 1>>)
  /\ UNCHANGED <<limiterVars, closed, finished, resourceVars, stackVars>>

(* The same with a caller's signal that has already fired: endBeforeStart() *)
(* stops the run before a workspace or a session exists.                   *)
SpawnCancelled(a) ==
  /\ NextToSpawn(a)
  /\ registered' = registered \cup {a}
  /\ current' = [current EXCEPT ![a] = 1]
  /\ status' = [status EXCEPT ![<<a, 1>>] = "stopped"]
  /\ fiber' = [fiber EXCEPT ![<<a, 1>>] = "over"]
  /\ Report(<<a, 1>>)
  /\ UNCHANGED <<limiterVars, closed, resourceVars, visiting, closing>>

-----------------------------------------------------------------------------
(* Resuming. *)

ResumeAllowed(a) ==
  /\ CallerActs
  /\ a \in registered
  /\ Resumable(a)
  /\ Resumes < MaxResumes /\ current[a] <= MaxResumes
  /\ "resume_unwinding" \in Rash \/ ~Stopping(a)

(* A background resume: a new queued run, admitted by the limiter. *)
ResumeQueued(a) ==
  LET r == <<a, current[a] + 1>> IN
  /\ ResumeAllowed(a)
  /\ current' = [current EXCEPT ![a] = @ + 1]
  /\ status' = [status EXCEPT ![r] = "queued"]
  /\ Limiter!Schedule(r)
  /\ UNCHANGED <<managerVars, fiber, finished, resourceVars, stackVars>>

(* A foreground resume runs at once. *)
ResumeNow(a) ==
  LET r == <<a, current[a] + 1>> IN
  /\ ResumeAllowed(a)
  /\ current' = [current EXCEPT ![a] = @ + 1]
  /\ BeginResumed(r)
  /\ UNCHANGED <<limiterVars, managerVars, finished, resourceVars, stackVars>>

-----------------------------------------------------------------------------
(* The limiter's own steps, and what they do to runs. *)

(* recheck() starts the oldest thunk.  A run that left the active set      *)
(* while it waited resolves at once.                                       *)
StartQueued ==
  LET r == Head(pending) IN
  /\ Limiter!StartNext
  /\ IF MayStart(r)
     THEN IF r[2] = 1 THEN BeginInitial(r) ELSE BeginResumed(r)
     ELSE /\ fiber' = [fiber EXCEPT ![r] = "over"]
          /\ UNCHANGED status
  /\ UNCHANGED <<managerVars, current, finished, resourceVars, stackVars>>

RecheckReturns ==
  /\ Limiter!RecheckDone
  /\ UNCHANGED <<managerVars, runVars, resourceVars, stackVars>>

SlotSettles(r) ==
  /\ Idle
  /\ RunReturned(r)
  /\ Limiter!Settle(r)
  /\ UNCHANGED <<managerVars, runVars, resourceVars, stackVars>>

SlotReleased(r) ==
  /\ Idle
  /\ Limiter!Release(r)
  /\ UNCHANGED <<managerVars, runVars, resourceVars, stackVars>>

ChangeLimit(n) ==
  /\ Idle
  /\ n # limit
  /\ Limiter!SetLimit(n)
  /\ UNCHANGED <<managerVars, runVars, resourceVars, stackVars>>

-----------------------------------------------------------------------------
(* A run's own callbacks. *)

(* fail(): the run errors and its workspace goes, asked or not. *)
Fail(r) ==
  /\ status' = [status EXCEPT ![r] = Transition(@, "ended")]
  /\ workspace' = [workspace EXCEPT ![r[1]] = TornDown(@)]
  /\ fiber' = [fiber EXCEPT ![r] = "over"]
  /\ Report(r)
  /\ UNCHANGED <<limiterVars, managerVars, current, session, attached, visiting, closing>>

(* prepare() resolves, to a workspace or to none. *)
Prepared(r) ==
  /\ Idle
  /\ fiber[r] = "preparing"
  /\ fiber' = [fiber EXCEPT ![r] = "creating"]
  /\ \E ws \in {"prepared", "none"} : workspace' = [workspace EXCEPT ![r[1]] = ws]
  /\ UNCHANGED <<limiterVars, managerVars, current, status, finished,
                 session, attached, stackVars>>

(* createSubagentSession() resolves and the turn loop starts, or would. *)
SessionCreated(r) ==
  /\ Idle
  /\ fiber[r] = "creating"
  /\ fiber' = [fiber EXCEPT ![r] = LoopEnteredAs(status[r])]
  /\ session' = [session EXCEPT ![r[1]] = "live"]
  /\ attached' = [attached EXCEPT ![r[1]] = TRUE]
  /\ UNCHANGED <<limiterVars, managerVars, current, status, finished,
                 workspace, stackVars>>

(* The turn loop returns: complete().  A run that completed within its turn *)
(* limit after asking its parent a question, and was not replaced by a     *)
(* resume, holds the workspace for the resume that answers it; any other   *)
(* end tears it down.  A run that took no turn holds a question only if    *)
(* the loop of the run it replaced had not returned and asked it.          *)
LoopReturns(r, asked) ==
  /\ Idle
  /\ asked => r = Cur(r[1]) /\ (fiber[r] = "looping" \/ "resume_unwinding" \in Rash)
  /\ InTurnLoop(r)
  /\ status' = [status EXCEPT ![r] = Transition(@, "ended")]
  /\ workspace' = [workspace EXCEPT ![r[1]] = IF asked THEN @ ELSE TornDown(@)]
  /\ fiber' = [fiber EXCEPT ![r] = "over"]
  /\ Report(r)
  /\ UNCHANGED <<limiterVars, managerVars, current, session, attached,
                 visiting, closing>>

(* prepare() or the session factory rejects, the turn loop throws, or the  *)
(* provider's dispose() throws inside complete().                          *)
BodyThrows(r) == Idle /\ InProgress(r) /\ Fail(r)

(* The observers of a finished run have returned. *)
ObserversReturn ==
  /\ emitting
  /\ Limiter!Quiet
  /\ emitting' = FALSE
  /\ UNCHANGED <<limiterVars, managerVars, runVars, resourceVars, visiting, closing>>

-----------------------------------------------------------------------------
(* Aborting and tearing down. *)

(* Stop agent a's current run, if it is active: a queued run ends here     *)
(* (stopQueued), a running one is only marked and unwinds on its own.      *)
StopCurrent(a) ==
  LET r == Cur(a) IN
  IF AgentActive(a)
  THEN /\ status' = [status EXCEPT ![r] = "stopped"]
       /\ IF status[r] = "queued" THEN Report(r) ELSE UNCHANGED <<finished, emitting>>
  ELSE UNCHANGED <<status, finished, emitting>>

(* manager.abort(id), and a caller's signal firing on a running agent. *)
Abort(a) ==
  /\ CallerActs
  /\ a \in registered
  /\ AgentActive(a)
  /\ StopCurrent(a)
  /\ UNCHANGED <<limiterVars, managerVars, current, fiber, resourceVars,
                 visiting, closing>>

(* abortAll(), called on a parent interrupt or by the shutdown handler; an *)
(* interrupt that finds nothing active and nothing pending does nothing.   *)
AbortAll(shutdown) ==
  /\ Idle
  /\ ~closed
  /\ shutdown \/ pending # <<>> \/ \E a \in registered : AgentActive(a)
  /\ shutdown => \A a \in registered : TeardownAllowed("teardown_unwinding", a)
  /\ visiting' = 1
  /\ closing' = shutdown
  /\ UNCHANGED <<limiterVars, managerVars, runVars, resourceVars, emitting>>

AbortAllVisits ==
  /\ visiting \in Agent
  /\ Limiter!Quiet /\ ~emitting
  /\ visiting' = visiting + 1
  /\ IF visiting \in registered THEN StopCurrent(visiting) ELSE UNCHANGED <<status, finished, emitting>>
  /\ UNCHANGED <<limiterVars, managerVars, current, fiber, resourceVars, closing>>

(* The loop is done: drop what the limiter still holds.  The shutdown      *)
(* handler goes on to manager.dispose(), which tears every record down.    *)
AbortAllReturns ==
  /\ visiting = NumAgents + 1
  /\ Limiter!Quiet /\ ~emitting
  /\ Limiter!Clear
  /\ visiting' = 0
  /\ closing' = FALSE
  /\ IF closing
     THEN /\ TearDown(registered)
          /\ registered' = {}
          /\ closed' = TRUE
     ELSE UNCHANGED <<registered, closed, session, workspace>>
  /\ UNCHANGED <<runVars, attached, emitting>>

(* sweep(): release the session of a settled record past its window. *)
Sweep(a) ==
  /\ Idle
  /\ a \in registered
  /\ ~Kept(a)
  /\ attached[a]
  /\ TeardownAllowed("sweep_unwinding", a)
  /\ TearDown({a})
  /\ attached' = [attached EXCEPT ![a] = FALSE]
  /\ UNCHANGED <<limiterVars, managerVars, runVars, stackVars>>

(* clearCompleted(), on session start and before a session switch. *)
ClearCompleted ==
  LET gone == {a \in registered : ~Kept(a)} IN
  /\ Idle
  /\ gone # {}
  /\ \A a \in gone : TeardownAllowed("teardown_unwinding", a)
  /\ TearDown(gone)
  /\ registered' = registered \ gone
  /\ UNCHANGED <<limiterVars, closed, runVars, attached, stackVars>>

-----------------------------------------------------------------------------
RunStep(r) ==
  \/ Prepared(r)
  \/ SessionCreated(r)
  \/ \E asked \in BOOLEAN : LoopReturns(r, asked)
  \/ BodyThrows(r)

Next ==
  \/ \E a \in Agent : SpawnQueued(a) \/ SpawnNow(a) \/ SpawnCancelled(a)
  \/ \E a \in Agent : ResumeQueued(a) \/ ResumeNow(a)
  \/ StartQueued
  \/ RecheckReturns
  \/ \E r \in Run : SlotSettles(r) \/ SlotReleased(r)
  \/ \E n \in Limit : ChangeLimit(n)
  \/ \E r \in Run : RunStep(r)
  \/ ObserversReturn
  \/ \E a \in Agent : Abort(a) \/ Sweep(a)
  \/ \E shutdown \in BOOLEAN : AbortAll(shutdown)
  \/ AbortAllVisits
  \/ AbortAllReturns
  \/ ClearCompleted

Spec == Init /\ [][Next]_vars

(***************************************************************************)
(* Synchronous code on the stack returns, and every pending callback gets  *)
(* its turn.  That prepare(), the session factory and the turn loop settle *)
(* is an assumption on the provider and on Pi; nothing obliges users or    *)
(* timers to act.                                                          *)
(***************************************************************************)
Callback(r) == RunStep(r) \/ SlotSettles(r) \/ SlotReleased(r)

Fairness ==
  /\ WF_vars(StartQueued \/ RecheckReturns \/ ObserversReturn)
  /\ WF_vars(AbortAllVisits \/ AbortAllReturns)
  /\ \A r \in Run : WF_vars(Callback(r))

FairSpec == Spec /\ Fairness

-----------------------------------------------------------------------------
(* Every variable has its type. *)
TypeOK ==
  /\ Limiter!LimiterTypeOK
  /\ registered \subseteq Agent
  /\ closed \in BOOLEAN
  /\ current \in [Agent -> 0 .. MaxResumes + 1]
  /\ status \in [Run -> Statuses]
  /\ fiber \in [Run -> Fibers]
  /\ finished \in [Run -> 0 .. 1]
  /\ session \in [Agent -> {"none", "live", "disposed"}]
  /\ attached \in [Agent -> BOOLEAN]
  /\ workspace \in [Agent -> {"none", "prepared", "disposed"}]
  /\ emitting \in BOOLEAN
  /\ visiting \in 0 .. NumAgents + 1
  /\ closing \in BOOLEAN

(* Only the current run of an agent is ever queued or running: whatever    *)
(* races a resume, the run it replaced had already ended, so abort(), the  *)
(* sweep and the resume guard, which look only at the current run, miss    *)
(* nothing.                                                                *)
OnlyCurrentRunActive == \A r \in Run : Active(r) => r = Cur(r[1])

(* A run that has ended never changes its status again: the late return of *)
(* an aborted turn loop, and the thunk of a run stopped while it waited,   *)
(* do not overwrite `stopped`.                                             *)
EndIsFinal == [][\A r \in Run : Terminal(r) => status'[r] = status[r]]_vars

(* Observers hear of each run exactly once, and only when its body is over *)
(* or it never began: an aborted run is reported when it has unwound, a    *)
(* queued one when it is stopped and not again when its slot opens.        *)
ReportedOnce ==
  \A r \in Run : finished[r] = IF Terminal(r) /\ ~InProgress(r) THEN 1 ELSE 0

(* A run the limiter admitted keeps its slot until its body has returned,  *)
(* aborted or not, and a queued run never starts without one: unwinding    *)
(* runs never let more than the limit's worth of background work go on.    *)
BodiesHoldSlots ==
  [][\A r \in Run :
       /\ slot[r] = "running" /\ slot'[r] # "running" => ~InProgress(r)
       /\ status[r] = "queued" /\ fiber'[r] # "none" => slot'[r] = "running"]_vars

(* The limiter under the manager keeps its counter, its queue and its      *)
(* wakeups right when its tasks are runs that stop, resume and call back.  *)
LimiterIntact == Limiter!SlotAccounting /\ Limiter!QueueAccounting /\ Limiter!NoIdleSlot

(* A queued run has its thunk in the limiter: "the limiter starts queued   *)
(* ones as slots free", so it either starts or is stopped.                 *)
QueuedRunHasThunk == \A r \in Run : status[r] = "queued" => slot[r] = "pending"

(* No turn loop takes turns in a workspace that has been torn down:        *)
(* "pulling the directory out from under a live child is not this path's   *)
(* business".  A run that was stopped before its prompt takes none.        *)
WorkspaceOutlivesLoop ==
  \A r \in Run : fiber[r] = "looping" => workspace[r[1]] # "disposed"

(* One child session takes the turns of one turn loop at a time. *)
OneLoopPerSession ==
  \A q, r \in Run : q[1] = r[1] /\ fiber[q] = "looping" /\ fiber[r] = "looping" => q = r

(* A workspace is held only while a run is under way or for a question the *)
(* agent can still be resumed with: it never outlives the record or the    *)
(* session that could re-enter it.                                         *)
HeldWorkspaceReachable ==
  \A a \in Agent : workspace[a] = "prepared" =>
    Unwinding(a) \/ (a \in registered /\ attached[a] /\ session[a] = "live")

(* The disposed event "always fires": a session whose record is gone and   *)
(* whose runs are over has been disposed.                                  *)
NoOrphanSession ==
  \A a \in Agent : session[a] = "live" => a \in registered \/ Unwinding(a)

(* Every queued run is reported in the end, started or stopped: nothing in *)
(* the queue, the slots or the teardown strands it.                        *)
QueuedRunEnds == \A r \in Run : status[r] = "queued" ~> finished[r] = 1
=============================================================================
