---------------------------- MODULE ChildSession ----------------------------
(***************************************************************************)
(* One child session: its creation (create-subagent-session.ts), the turns *)
(* of its runs under a budget (subagent-session.ts, turn-limits.ts) and    *)
(* its teardown (child-shutdown.ts), with the lifecycle events published   *)
(* on the way (child-lifecycle.ts).                                        *)
(*                                                                         *)
(* Pi's agent loop is external: a prompt runs turns while the last one ran *)
(* tools or a steer waits; a failed response may be retried in the same    *)
(* prompt, and overflow recovery may take it out of the history; an abort  *)
(* does nothing while no loop runs, and otherwise ends the next response   *)
(* as aborted.                                                             *)
(***************************************************************************)
EXTENDS AgentTypes, Sequences, FiniteSets

CONSTANTS
  SpawnChoices,  \* spawns: the door, the type named and max_turns asked for,
                 \* the agent files, the settings files, an edit of theirs
  Caller,        \* who may tear the session down: the sweep, the shutdown
  MaxRuns,       \* runs of one session, the first included
  MaxTurns       \* turns begun in one run

(* Numbers of turns are integers, as in an agent file and in the dialog;   *)
(* the fraction a call may name is left out.                               *)
ASSUME SpawnChoicesAssumption ==
  \A spawn \in SpawnChoices :
    /\ spawn.maxTurns \in Int /\ spawn.edit.number \in Int
    /\ \A name \in DOMAIN spawn.dirs.global : spawn.dirs.global[name].maxTurns \in Int
    /\ \A name \in DOMAIN spawn.dirs.project : spawn.dirs.project[name].maxTurns \in Int

VARIABLES
  limits,     \* the turn limits every run is held to
  stage,      \* of creation: new, preparing, binding, unbound, bound, failed
  published,  \* lifecycle events, in order
  runs,       \* runs started
  run,        \* idle, prompting, settled
  outcome,    \* of the last run: answer, error, nothing
  signal,     \* the run's abort signal has fired
  tracker,    \* the run's TurnBudgetTracker
  loop,       \* Pi's loop: idle, entering, between, turn, doomed
  stopping,   \* Pi's loop has been aborted
  begun,      \* turns begun in this run
  spent,      \* turns of this run that ended well
  steered,    \* a steer waits for the next turn
  unread,     \* a budget warning no turn has read yet
  failure,    \* what the turn-failure collector holds
  last,       \* how the session's last response really ended
  disposing,  \* callers inside dispose(), by caller: no, waiting, back
  disposed,   \* SubagentSession.disposed
  handlers,   \* the child's session_shutdown handlers: quiet, running, done
  timedOut    \* the bound on those handlers has passed

creationVars == <<limits, stage>>
runVars == <<runs, run, outcome, signal, tracker>>
loopVars == <<loop, stopping, begun, spent, steered, unread, last>>
teardownVars == <<disposing, disposed, handlers, timedOut>>
childVars == <<creationVars, published, runVars, loopVars, failure, teardownVars>>

RegistryOf(spawn) == Reload(spawn.dirs)

(* load() as the extension starts, then the dialog.                        *)
SettingsOf(spawn) == Edited(Load(Defaults, spawn.global, spawn.project), spawn.edit)

LimitsOf(spawn) == SpawnLimits(RegistryOf(spawn), spawn, SettingsOf(spawn))

NoChild ==
  /\ stage = "new" /\ published = <<>>
  /\ runs = 0 /\ run = "idle" /\ outcome = "none" /\ signal = FALSE
  /\ tracker = Tracker(limits)
  /\ loop = "idle" /\ stopping = FALSE /\ begun = 0 /\ spent = 0
  /\ steered = FALSE /\ unread = FALSE
  /\ failure = "none" /\ last = "none"
  /\ disposing = [k \in Caller |-> "no"]
  /\ disposed = FALSE /\ handlers = "quiet" /\ timedOut = FALSE

(* The process is gone, and the session with it.                           *)
ChildGone ==
  /\ stage' = "new" /\ published' = <<>>
  /\ runs' = 0 /\ run' = "idle" /\ outcome' = "none" /\ signal' = FALSE
  /\ tracker' = Tracker(limits) /\ UNCHANGED limits
  /\ loop' = "idle" /\ stopping' = FALSE /\ begun' = 0 /\ spent' = 0
  /\ steered' = FALSE /\ unread' = FALSE
  /\ failure' = "none" /\ last' = "none"
  /\ disposing' = [k \in Caller |-> "no"]
  /\ disposed' = FALSE /\ handlers' = "quiet" /\ timedOut' = FALSE

ChildInit ==
  /\ \E spawn \in SpawnChoices :
       ~Refused(RegistryOf(spawn), spawn) /\ limits = LimitsOf(spawn)
  /\ NoChild

Publish(event) == published' = Append(published, event)
Published(event) == \E i \in 1..Len(published) : published[i] = event

-----------------------------------------------------------------------------
(* Creation.                                                               *)

Spawn ==
  /\ stage = "new"
  /\ stage' = "preparing"
  /\ Publish("spawning")
  /\ UNCHANGED <<limits, runVars, loopVars, failure, teardownVars>>

(* The environment, the resource loader or Pi's session cannot be had.     *)
PreparationFails ==
  /\ stage = "preparing"
  /\ stage' = "failed"
  /\ UNCHANGED <<limits, published, runVars, loopVars, failure, teardownVars>>

CreateSession ==
  /\ stage = "preparing"
  /\ stage' = "binding"
  /\ Publish("session-created")
  /\ UNCHANGED <<limits, runVars, loopVars, failure, teardownVars>>

Bound ==
  /\ stage = "binding"
  /\ stage' = "bound"
  /\ Publish("bound")
  /\ UNCHANGED <<limits, runVars, loopVars, failure, teardownVars>>

(* dispose() up to its await: only the first of two callers emits, and the *)
(* failure collector lets go of the session.                               *)
(* (A bug: the guard is only set once the session is gone.)                *)
AlreadyAnnounced == Published("disposed")

AlreadyDisposed == disposed

BeginDispose ==
  IF AlreadyDisposed
  THEN UNCHANGED <<disposed, handlers>>
  ELSE disposed' = TRUE /\ handlers' \in {"running", "done"}

BindingFails ==
  /\ stage = "binding"
  /\ stage' = "unbound"
  /\ BeginDispose
  /\ UNCHANGED <<limits, published, runVars, loopVars, failure, disposing, timedOut>>

-----------------------------------------------------------------------------
(* One run: runTurnLoop().                                                 *)

FirstRun == runs = 1

(* promptForAnswer() up to session.prompt(): a signal that already fired   *)
(* takes no turn; a budget that is all wrap-up turns is stated up front.   *)
StartRun ==
  /\ stage = "bound" /\ ~disposed
  /\ run # "prompting" /\ runs < MaxRuns
  /\ runs' = runs + 1
  /\ begun' = 0 /\ spent' = 0
  /\ stopping' = FALSE /\ steered' = FALSE
  /\ signal' \in BOOLEAN
  /\ LET fresh == Tracker(limits) IN
     IF signal'
     THEN /\ run' = "settled" /\ outcome' = "nothing"
          /\ tracker' = fresh
          /\ IF runs = 0 THEN Publish("completed") ELSE UNCHANGED published
          /\ unread' = FALSE
          /\ UNCHANGED loop
     ELSE /\ run' = "prompting" /\ outcome' = "none"
          /\ tracker' = Opened(fresh)
          /\ loop' = "entering"
          /\ IF WarnsBeforeFirstTurn(fresh)
             THEN unread' = TRUE
             ELSE unread' = FALSE
          /\ UNCHANGED published
  /\ UNCHANGED <<creationVars, failure, last, teardownVars>>

(* forwardAbortSignal(): Pi's abort() is a no-op while no loop runs.       *)
FireSignal ==
  /\ run = "prompting" /\ ~signal
  /\ signal' = TRUE
  /\ stopping' = (stopping \/ loop \in {"between", "turn", "doomed"})
  /\ UNCHANGED <<creationVars, published, runs, run, outcome, tracker, loop, begun,
                 spent, steered, unread, last, failure, teardownVars>>

Steer ==
  /\ loop \in {"between", "turn", "doomed"} /\ ~steered
  /\ steered' = TRUE
  /\ UNCHANGED <<creationVars, published, runVars, loop, stopping, begun, spent, unread, last, failure, teardownVars>>

(* A request made after an abort only comes back aborted.                  *)
TurnStart ==
  /\ loop \in {"entering", "between"} /\ begun < MaxTurns
  /\ begun' = begun + 1
  /\ tracker' = OnTurnStart(tracker)
  /\ stopping' = (stopping \/ StopsAtStart(tracker))
  /\ loop' = IF stopping' THEN "doomed" ELSE "turn"
  /\ unread' = (unread /\ stopping')
  /\ steered' = FALSE
  /\ UNCHANGED <<creationVars, published, runs, run, outcome, signal, spent, last, failure, teardownVars>>

(* The loop's next move after a turn that ended as `how`.                  *)
LoopAfter(how, ranTools) ==
  CASE how = "aborted" -> {"idle"}
    [] how = "error"   -> {"idle", "between"}
    [] OTHER           -> IF ranTools \/ steered THEN {"between"} ELSE {"idle"}

(* message_end, which the collector reads, then turn_end.                  *)
TurnEnd(how, ranTools) ==
  /\ loop \in {"turn", "doomed"}
  /\ loop = "doomed" => how = "aborted"
  /\ how = "aborted" => stopping
  /\ how # "ok" => ~ranTools
  /\ last' = how
  /\ failure' = IF disposed THEN failure ELSE IF how = "error" THEN "error" ELSE "none"
  /\ LET failed == how # "ok"
         action == ActionAtEnd(tracker, failed, ranTools) IN
     /\ tracker' = OnTurnEnd(tracker, failed, ranTools)
     /\ stopping' = (stopping \/ action = "stop")
     /\ unread' = (unread \/ action = "warn")
     /\ spent' = IF failed THEN spent ELSE spent + 1
  /\ loop' \in LoopAfter(how, ranTools)
  /\ UNCHANGED <<creationVars, published, runs, run, outcome, signal, begun, steered, teardownVars>>

(* (A bug: a failure counts only for the run that saw it.)                 *)
RunFailedItself == failure = "error" /\ begun > 0

(* failIfProviderErrored()                                                 *)
RunFailed == failure = "error"

(* An extension handles the prompt, or the last turn has ended.            *)
PromptResolves ==
  /\ run = "prompting" /\ loop \in {"idle", "entering"}
  /\ run' = "settled" /\ loop' = "idle"
  /\ outcome' = IF RunFailed THEN "error" ELSE "answer"
  /\ IF FirstRun /\ outcome' = "answer" THEN Publish("completed") ELSE UNCHANGED published
  /\ UNCHANGED <<creationVars, runs, signal, tracker, stopping, begun, spent, steered,
                 unread, last, failure, teardownVars>>

PromptThrows ==
  /\ run = "prompting" /\ loop = "entering"
  /\ run' = "settled" /\ loop' = "idle" /\ outcome' = "error"
  /\ UNCHANGED <<creationVars, published, runs, signal, tracker, stopping, begun, spent,
                 steered, unread, last, failure, teardownVars>>

-----------------------------------------------------------------------------
(* Teardown. A caller that finds the session disposed returns at once; the *)
(* first waits for the handlers or the bound, disposes and announces.      *)

Dispose(k) ==
  /\ stage = "bound" /\ disposing[k] = "no"
  /\ run = "prompting" => signal
  /\ disposing' = [disposing EXCEPT ![k] = IF AlreadyDisposed THEN "back" ELSE "waiting"]
  /\ BeginDispose
  /\ UNCHANGED <<creationVars, published, runVars, loopVars, failure, timedOut>>

HandlersSettle ==
  /\ handlers = "running"
  /\ handlers' = "done"
  /\ UNCHANGED <<creationVars, published, runVars, loopVars, failure, disposing, disposed, timedOut>>

(* (A bug: the wait for the handlers has no bound.)                        *)
AwaitedForever == handlers = "done"

(* emitChildSessionShutdown() is over: settled, or past its bound.         *)
Awaited == handlers = "done" \/ timedOut

BoundPasses ==
  /\ handlers = "running" /\ ~timedOut /\ ~Published("disposed")
  /\ timedOut' = TRUE
  /\ UNCHANGED <<creationVars, published, runVars, loopVars, failure, disposing, disposed, handlers>>

FinishDispose(k) ==
  /\ disposing[k] = "waiting" /\ Awaited
  /\ disposing' = [disposing EXCEPT ![k] = "back"]
  /\ Publish("disposed")
  /\ UNCHANGED <<creationVars, runVars, loopVars, failure, disposed, handlers, timedOut>>

(* createSubagentSession() rethrows once its own session is disposed of.   *)
FinishUnbound ==
  /\ stage = "unbound" /\ Awaited
  /\ stage' = "failed"
  /\ Publish("disposed")
  /\ UNCHANGED <<limits, runVars, loopVars, failure, teardownVars>>

-----------------------------------------------------------------------------
Ends == {<<"ok", TRUE>>, <<"ok", FALSE>>, <<"error", FALSE>>, <<"aborted", FALSE>>}

ChildNext ==
  \/ Spawn \/ PreparationFails \/ CreateSession \/ Bound \/ BindingFails
  \/ StartRun \/ FireSignal \/ Steer \/ TurnStart \/ PromptResolves \/ PromptThrows
  \/ \E e \in Ends : TurnEnd(e[1], e[2])
  \/ \E k \in Caller : Dispose(k) \/ FinishDispose(k)
  \/ HandlersSettle \/ BoundPasses \/ FinishUnbound

-----------------------------------------------------------------------------
(* No run completes a turn past its limit, whatever the child calls, fails *)
(* and retries, and however often it is steered on its last turn           *)
(* (turn-limits.ts:45-50, plan 1022).                                      *)
TurnsWithinBudget == limits.maxTurns # Absent => spent <= limits.maxTurns

(* A run that ends on its own does not leave a warning unread for a resume *)
(* to find, and a warning never says that no turn is left                  *)
(* (turn-limits.ts:41-44).                                                 *)
WarningIsRead ==
  /\ outcome = "answer" /\ begun > 0 /\ last = "ok" => ~unread
  /\ unread /\ run = "prompting" => Remaining(tracker) >= 1

(* A run whose session last ended in a provider error is not reported as   *)
(* an answer: not when recovery took the error out of the history, not     *)
(* when a resume ran no turn of its own (subagent-session.ts:318-325).     *)
NoFailurePassesAsAnswer == outcome = "answer" /\ ~disposed => last # "error"

(* The harness cuts a run short only once the budget is spent: failed and  *)
(* retried turns are free (turn-limits.ts:75).                             *)
OnlySpentRunsAreCut ==
  stopping /\ ~signal => limits.maxTurns # Absent /\ spent >= limits.maxTurns

(* The child's shutdown handlers run against a live session, registered    *)
(* with the permission system, unless they outlast their bound; and a      *)
(* session is disposed of once however many callers ask                    *)
(* (subagent-session.ts:259-272).                                          *)
TeardownInOrder ==
  /\ Published("disposed") => handlers = "done" \/ timedOut
  /\ Published("disposed") => Published("session-created")
  /\ Cardinality({i \in 1..Len(published) : published[i] = "disposed"}) <= 1

(* What obliges the session to announce its end.                           *)
DisposalWanted == stage = "unbound" \/ \E k \in Caller : disposing[k] # "no"
=============================================================================
