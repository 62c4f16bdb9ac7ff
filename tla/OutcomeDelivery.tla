--------------------------- MODULE OutcomeDelivery ---------------------------
(***************************************************************************)
(* How the outcome of a subagent's run, and the updates the child sends    *)
(* along the way, reach the parent model                                   *)
(* (pi-subagents/src/observation/notification.ts, the delivery state of    *)
(* lifecycle/subagent-run.ts, and the carriers: tools/foreground-runner.ts,*)
(* the resume of tools/agent-tool.ts, tools/get-result-tool.ts).           *)
(*                                                                         *)
(* One agent: announcements of different agents share a queue and nothing  *)
(* else.  Its runs follow one another; the limiter and the session are     *)
(* SubagentLifecycle's.  What the parent gets to read is the history       *)
(* `told`, to which announcements and tool reports append.                 *)
(***************************************************************************)
EXTENDS Naturals, Sequences, FiniteSets, SequencesExt

CONSTANTS
  Message,    \* what a child can say in an update
  MaxRuns,    \* bound: the initial run and its resumes
  MaxUpdates, \* bound: updates the child sends, over all runs
  MaxCalls,   \* bound: tool calls that report to the parent
  Rash        \* what the surroundings do at awkward moments: see RashKinds

(***************************************************************************)
(* The code accepts all four; what it guarantees depends on them.          *)
(*   resume_undelivered: an agent is resumed before the outcome of its     *)
(*     current run has reached the parent, or while a tool call that       *)
(*     started that run has still to return.                               *)
(*   resume_withheld: an agent is resumed while an announcement about its  *)
(*     current run, told by other means, is withheld for the parent's turn.*)
(*   collect_unwinding: a tool call collects a run that is marked stopped  *)
(*     while its turn loop has not returned.                               *)
(*   report_withheld: a tool call reports on a running agent whose update  *)
(*     is withheld for the parent's turn.                                  *)
(***************************************************************************)
RashKinds ==
  {"resume_undelivered", "resume_withheld", "collect_unwinding", "report_withheld"}

ASSUME MaxRunsAssumption == MaxRuns \in Nat \ {0}
ASSUME MaxUpdatesAssumption == MaxUpdates \in Nat
ASSUME MaxCallsAssumption == MaxCalls \in Nat
ASSUME DeliveryRashAssumption == Rash \subseteq RashKinds

Run == 1 .. MaxRuns
Call == 1 .. MaxCalls
Outsider == 0   \* another extension that claimed a resume's outcome
UpdateId == Run \X (1 .. MaxUpdates)

VARIABLES
  cur,          \* the agent's current run; 0 before the spawn
  ready,        \* its child session exists
  status,       \* run -> "queued", "running", "stopping" (marked stopped,
                \* the loop has not returned), "over", or "unborn"
  claims,       \* run -> the carriers that committed to deliver its outcome
  consumed,     \* run -> its outcome was collected
  updates,      \* run -> its ledger of updates
  call,         \* tool call -> what it is doing, and the run it began on
  reporting,    \* the run whose onRunFinished event is being emitted, or 0
  pending,      \* the announcements withheld for the parent's agent run
  parentActive, \* the parent's agent run is under way
  disposed,     \* the notification manager has been disposed
  told          \* history: what reached the parent, in order

runVars == <<cur, ready, status>>
deliveryVars == <<claims, consumed, updates>>
managerVars == <<pending, parentActive, disposed>>
vars == <<runVars, deliveryVars, managerVars, call, reporting, told>>

Init ==
  /\ cur = 0
  /\ ready = FALSE
  /\ status = [r \in Run |-> "unborn"]
  /\ claims = [r \in Run |-> {}]
  /\ consumed = [r \in Run |-> FALSE]
  /\ updates = [r \in Run |-> <<>>]
  /\ call = [c \in Call |-> [doing |-> "unused", run |-> 0]]
  /\ reporting = 0
  /\ pending = <<>>
  /\ parentActive = FALSE
  /\ disposed = FALSE
  /\ told = <<>>

Active(r) == status[r] \in {"queued", "running"}
Sent == {u \in UpdateId : u[2] <= Len(updates[u[1]])}
Idle == reporting = 0
InProgress(c) == call[c].doing \in {"foreground", "resume", "wait"}

-----------------------------------------------------------------------------
(* Bugs the properties must catch, each in place of a definition below. *)

NudgeUnlessClaimed == claims[cur] = {}
ReleaseNothing(c, r) == UNCHANGED claims
FlushNothing(s) == s

-----------------------------------------------------------------------------
(* The run's delivery state, and the manager's decisions. *)

(* SubagentRun.runUpdates: what an outcome carrier must render. *)
Owed(ledger, r) == {<<r, i>> : i \in {j \in DOMAIN ledger[r] : ~ledger[r][j].announced}}

(* SubagentRun.markUpdateAnnounced: the first copy still owed. *)
FirstOwed(ledger, m) ==
  LET copies == {i \in DOMAIN ledger : ~ledger[i].announced /\ ledger[i].message = m}
  IN IF copies = {} THEN 0 ELSE Min(copies)
MarkAnnounced(ledger, m) ==
  LET i == FirstOwed(ledger, m)
  IN IF i = 0 THEN ledger ELSE [ledger EXCEPT ![i].announced = TRUE]

(* The latch sendCompletion and sendUpdate look at first. *)
Silenced == disposed

(* emitIndividualNudge's checks, which sendCompletion makes too; they read *)
(* the record, that is, its current run.                                   *)
OwesNudge == claims[cur] = {} /\ ~consumed[cur]

(* canAnnounceUpdate *)
CanAnnounceUpdate == claims[cur] = {} /\ Active(cur)

(* What reached the parent, of which run, whether that run was over, and   *)
(* the updates that came with it.                                          *)
Note(kind, r, us) == [kind |-> kind, run |-> r, over |-> status[r] = "over", updates |-> us]

(* emitUpdate and emitIndividualNudge, on a pair of ledgers and history.   *)
(* The checks and the mark are on the current run, whichever run sent the  *)
(* update; of two updates that say the same, the announcement delivers the *)
(* one it marks.                                                           *)
EmitUpdate(s, entry) ==
  LET i == FirstOwed(s.ledgers[cur], entry.message)
      copy == IF i = 0 THEN entry.of ELSE <<cur, i>>
  IN IF CanAnnounceUpdate
     THEN [ledgers |-> [s.ledgers EXCEPT ![cur] = MarkAnnounced(@, entry.message)],
           told |-> Append(s.told, Note("update", copy[1], {copy}))]
     ELSE s

NudgeWithoutUpdates(s) ==
  IF OwesNudge THEN [s EXCEPT !.told = Append(@, Note("nudge", cur, {}))] ELSE s
EmitNudge(s) ==
  IF OwesNudge
  THEN [s EXCEPT !.told = Append(@, Note("nudge", cur, Owed(s.ledgers, cur)))]
  ELSE s

Emit(s, entry) == IF entry.kind = "update" THEN EmitUpdate(s, entry) ELSE EmitNudge(s)

(* onParentAgentSettled: every withheld announcement, in arrival order. *)
Flush(s) ==
  LET emitted[i \in 0 .. Len(pending)] ==
        IF i = 0 THEN s ELSE Emit(emitted[i - 1], pending[i])
  IN  emitted[Len(pending)]

Completion == [kind |-> "completion"]

(* withholdCompletion: a newer one takes the place of the older. *)
Withhold == IF Contains(pending, Completion) THEN pending ELSE Append(pending, Completion)

Unsent == [ledgers |-> updates, told |-> told]
Becomes(s) == updates' = s.ledgers /\ told' = s.told

(* CarrierClaim.release drops the caller's own claim. *)
Release(c, r) == claims' = [claims EXCEPT ![r] = @ \ {c}]

(* A tool call's text: run r's outcome or its running note, with what the  *)
(* run still owes.                                                         *)
Tell(r) == told' = Append(told, Note("report", r, Owed(updates, r)))

(* get_subagent_result counts a run that is not active as collected.       *)
Report(r) ==
  /\ consumed' = [consumed EXCEPT ![r] = @ \/ ~Active(r)]
  /\ Tell(r)

(* The history: who has been told what. *)
Nudged(r) == \E i \in DOMAIN told : told[i].kind = "nudge" /\ told[i].run = r
Returned(r) == \E i \in DOMAIN told : told[i].kind = "report" /\ told[i].run = r /\ told[i].over
Told(r) == Nudged(r) \/ Returned(r)
Heard(u) == \E i \in DOMAIN told : u \in told[i].updates

-----------------------------------------------------------------------------
(* Runs. *)

(* A background spawn, by a tool call or another extension. *)
SpawnBackground ==
  /\ Idle /\ ~disposed
  /\ cur = 0
  /\ cur' = 1
  /\ \E st \in {"queued", "running"} : status' = [status EXCEPT ![1] = st]
  /\ UNCHANGED <<ready, deliveryVars, managerVars, call, reporting, told>>

(* Calls are used in order; the parent makes them in its agent run. *)
NextCall(c) ==
  /\ Idle
  /\ parentActive
  /\ call[c].doing = "unused"
  /\ \A d \in Call : d < c => call[d].doing # "unused"

(* spawnAndWait: the run starts inside create() and is claimed after it. *)
SpawnForeground(c) ==
  /\ NextCall(c) /\ ~disposed
  /\ cur = 0
  /\ cur' = 1
  /\ status' = [status EXCEPT ![1] = "running"]
  /\ claims' = [claims EXCEPT ![1] = {c}]
  /\ call' = [call EXCEPT ![c] = [doing |-> "foreground", run |-> 1]]
  /\ UNCHANGED <<ready, consumed, updates, managerVars, reporting, told>>

(* The same with a signal that has already fired: the run is over and its  *)
(* completion withheld before the claim is made.                           *)
SpawnForegroundCancelled(c) ==
  /\ NextCall(c) /\ ~disposed
  /\ cur = 0
  /\ cur' = 1
  /\ status' = [status EXCEPT ![1] = "over"]
  /\ pending' = Withhold
  /\ claims' = [claims EXCEPT ![1] = {c}]
  /\ call' = [call EXCEPT ![c] = [doing |-> "foreground", run |-> 1]]
  /\ UNCHANGED <<ready, consumed, updates, parentActive, disposed, reporting, told>>

(* Nothing is left to say of the current run. *)
Delivered ==
  /\ Idle
  /\ status[cur] = "over"
  /\ Told(cur) \/ Outsider \in claims[cur]
  /\ "resume_withheld" \in Rash \/ pending = <<>>
  /\ \A c \in Call : call[c].doing \notin {"foreground", "resume"}

(* resumeRefusal = undefined; a consumer of the completion event may call  *)
(* this before the completion has been announced.                          *)
ResumeAllowed ==
  /\ cur \in 1 .. MaxRuns - 1
  /\ ready /\ ~Active(cur)
  /\ "resume_undelivered" \in Rash \/ Delivered

(* A background resume, unclaimed or claimed by the extension that asks,   *)
(* whose signal may have fired by the time the run starts.                 *)
ResumeBackground ==
  /\ ResumeAllowed
  /\ cur' = cur + 1
  /\ \E st \in {"queued", "running", "stopping"} : status' = [status EXCEPT ![cur + 1] = st]
  /\ \E cs \in {{}, {Outsider}} : claims' = [claims EXCEPT ![cur + 1] = cs]
  /\ UNCHANGED <<ready, consumed, updates, managerVars, call, reporting, told>>

(* A resuming tool call: the run is born claimed; a signal that has fired  *)
(* stops it as it starts.                                                  *)
ResumeForeground(c) ==
  /\ NextCall(c)
  /\ ResumeAllowed
  /\ cur' = cur + 1
  /\ \E st \in {"running", "stopping"} : status' = [status EXCEPT ![cur + 1] = st]
  /\ claims' = [claims EXCEPT ![cur + 1] = {c}]
  /\ call' = [call EXCEPT ![c] = [doing |-> "resume", run |-> cur + 1]]
  /\ UNCHANGED <<ready, consumed, updates, managerVars, reporting, told>>

(* A slot opens for a queued run; a resume whose signal has fired is       *)
(* stopped as it starts.                                                   *)
Start ==
  /\ Idle
  /\ cur # 0 /\ status[cur] = "queued"
  /\ \E st \in IF cur = 1 THEN {"running"} ELSE {"running", "stopping"} :
       status' = [status EXCEPT ![cur] = st]
  /\ UNCHANGED <<cur, ready, deliveryVars, managerVars, call, reporting, told>>

SessionReady ==
  /\ Idle
  /\ cur = 1 /\ status[1] = "running" /\ ~ready
  /\ ready' = TRUE
  /\ UNCHANGED <<cur, status, deliveryVars, managerVars, call, reporting, told>>

(* manager.abort, abortAll and a caller's signal. *)
Abort ==
  /\ Idle
  /\ cur # 0 /\ Active(cur)
  /\ IF status[cur] = "queued"
     THEN status' = [status EXCEPT ![cur] = "over"] /\ reporting' = cur
     ELSE status' = [status EXCEPT ![cur] = "stopping"] /\ UNCHANGED reporting
  /\ UNCHANGED <<cur, ready, deliveryVars, managerVars, call, told>>

(* The body of a run returns, and its completion event goes out. *)
Finish(r) ==
  /\ Idle
  /\ status[r] \in {"running", "stopping"}
  /\ status' = [status EXCEPT ![r] = "over"]
  /\ reporting' = r
  /\ UNCHANGED <<cur, ready, deliveryVars, managerVars, call, told>>

(* The event's consumers have returned: sendCompletion of the record. *)
Notify ==
  /\ reporting # 0
  /\ reporting' = 0
  /\ LET owes == ~Silenced /\ OwesNudge IN
     /\ pending' = IF owes /\ parentActive THEN Withhold ELSE pending
     /\ Becomes(IF owes /\ ~parentActive THEN EmitNudge(Unsent) ELSE Unsent)
  /\ UNCHANGED <<runVars, claims, consumed, parentActive, disposed, call>>

(* notify_parent in the child: the update joins the current run's ledger,  *)
(* then it is announced, withheld, or left to the run's carrier.           *)
ChildUpdate(m) ==
  LET id == <<cur, Len(updates[cur]) + 1>>
      entry == [kind |-> "update", message |-> m, of |-> id]
      recorded == [updates EXCEPT ![cur] = Append(@, [message |-> m, announced |-> FALSE])]
      allowed == ~Silenced /\ CanAnnounceUpdate IN
  /\ Idle
  /\ cur # 0 /\ ready
  /\ status[cur] \in {"running", "stopping"}
  /\ Cardinality(Sent) < MaxUpdates
  /\ pending' = IF allowed /\ parentActive THEN Append(pending, entry) ELSE pending
  /\ LET s == [ledgers |-> recorded, told |-> told]
     IN Becomes(IF allowed /\ ~parentActive THEN EmitUpdate(s, entry) ELSE s)
  /\ UNCHANGED <<runVars, claims, consumed, parentActive, disposed, call, reporting>>

-----------------------------------------------------------------------------
(* The parent's tool calls. *)

Done(c) == call' = [call EXCEPT ![c].doing = "done"]

MayReport(r) ==
  /\ "collect_unwinding" \in Rash \/ status[r] # "stopping"
  /\ \/ "report_withheld" \in Rash
     \/ ~Active(r)
     \/ \A i \in DOMAIN pending : pending[i].kind # "update"

(* The foreground and the resume call await their run's promise and then   *)
(* report on, and mark, whatever run is current.                           *)
Return(c) ==
  /\ Idle
  /\ call[c].doing \in {"foreground", "resume"}
  /\ status[call[c].run] = "over"
  /\ consumed' = [consumed EXCEPT ![cur] = TRUE]
  /\ Tell(cur)
  /\ Done(c)
  /\ UNCHANGED <<runVars, claims, updates, managerVars, reporting>>

(* get_subagent_result without a wait. *)
Pull(c) ==
  /\ NextCall(c)
  /\ cur # 0
  /\ MayReport(cur)
  /\ Report(cur)
  /\ Done(c)
  /\ UNCHANGED <<runVars, claims, updates, managerVars, reporting>>

(* get_subagent_result with a wait: claim, then wait for the run to settle,*)
(* for the parent's interrupt, or for the bound.                           *)
WaitBegins(c) ==
  /\ NextCall(c)
  /\ cur # 0
  /\ claims' = [claims EXCEPT ![cur] = @ \cup {c}]
  /\ call' = [call EXCEPT ![c] = [doing |-> "wait", run |-> cur]]
  /\ UNCHANGED <<runVars, consumed, updates, managerVars, reporting, told>>

WaitReturns(c) ==
  LET r == call[c].run IN
  /\ Idle
  /\ call[c].doing = "wait"
  /\ ~Active(r)
  /\ MayReport(r)
  /\ Report(r)
  /\ Done(c)
  /\ UNCHANGED <<runVars, claims, updates, managerVars, reporting>>

(* Interrupted or out of time, with the run still active. *)
WaitAbandoned(c) ==
  LET r == call[c].run IN
  /\ Idle
  /\ call[c].doing = "wait"
  /\ Active(r)
  /\ MayReport(r)
  /\ Release(c, r)
  /\ Report(r)
  /\ Done(c)
  /\ UNCHANGED <<runVars, updates, managerVars, reporting>>

-----------------------------------------------------------------------------
(* The parent's agent run, and the end of the session. *)

ParentStarts ==
  /\ Idle /\ ~parentActive
  /\ parentActive' = TRUE
  /\ UNCHANGED <<runVars, deliveryVars, pending, disposed, call, reporting, told>>

(* Pi awaits a run's tool calls before it settles the run. *)
ParentSettles ==
  /\ Idle /\ parentActive
  /\ \A c \in Call : ~InProgress(c)
  /\ parentActive' = FALSE
  /\ pending' = <<>>
  /\ Becomes(Flush(Unsent))
  /\ UNCHANGED <<runVars, claims, consumed, disposed, call, reporting>>

Dispose ==
  /\ Idle /\ ~disposed
  /\ disposed' = TRUE
  /\ pending' = <<>>
  /\ UNCHANGED <<runVars, deliveryVars, parentActive, call, reporting, told>>

Next ==
  \/ SpawnBackground
  \/ \E c \in Call : SpawnForeground(c) \/ SpawnForegroundCancelled(c)
  \/ ResumeBackground
  \/ \E c \in Call : ResumeForeground(c)
  \/ Start
  \/ SessionReady
  \/ Abort
  \/ \E r \in Run : Finish(r)
  \/ Notify
  \/ \E m \in Message : ChildUpdate(m)
  \/ \E c \in Call : Return(c) \/ Pull(c) \/ WaitBegins(c) \/ WaitReturns(c) \/ WaitAbandoned(c)
  \/ ParentStarts
  \/ ParentSettles
  \/ Dispose

Spec == Init /\ [][Next]_vars

(***************************************************************************)
(* A slot opens and a turn loop returns in the end, callbacks and settled  *)
(* calls get their turn, and Pi settles the parent's run.  Nothing obliges *)
(* the parent to call a tool, or anyone to resume, abort or dispose.       *)
(***************************************************************************)
Fairness ==
  /\ WF_vars(Start) /\ WF_vars(Notify) /\ WF_vars(ParentSettles)
  /\ \A r \in Run : WF_vars(Finish(r))
  /\ \A c \in Call : WF_vars(Return(c)) /\ WF_vars(WaitReturns(c))

FairSpec == Spec /\ Fairness

-----------------------------------------------------------------------------
(* Every variable has its type. *)
TypeOK ==
  /\ cur \in 0 .. MaxRuns
  /\ ready \in BOOLEAN
  /\ status \in [Run -> {"unborn", "queued", "running", "stopping", "over"}]
  /\ claims \in [Run -> SUBSET (Call \cup {Outsider})]
  /\ consumed \in [Run -> BOOLEAN]
  /\ \A r \in Run :
       /\ updates[r] \in Seq([message : Message, announced : BOOLEAN])
       /\ Len(updates[r]) <= MaxUpdates
  /\ call \in [Call -> [doing : {"unused", "foreground", "resume", "wait", "done"},
                        run : 0 .. MaxRuns]]
  /\ reporting \in 0 .. MaxRuns
  /\ pending \in Seq({Completion} \cup [kind : {"update"}, message : Message, of : UpdateId])
  /\ parentActive \in BOOLEAN
  /\ disposed \in BOOLEAN
  /\ told \in Seq([kind : {"nudge", "report", "update"}, run : Run, over : BOOLEAN,
                   updates : SUBSET UpdateId])

(* A run's outcome is announced at most once, and never after a tool call  *)
(* has returned it: "exactly one carrier", however a pull, several waits,  *)
(* an interrupt and the flush interleave.                                  *)
OneCarrier ==
  \A i \in DOMAIN told : told[i].kind = "nudge" =>
    \A j \in 1 .. i - 1 : told[j].run = told[i].run =>
      ~(told[j].kind = "nudge" \/ (told[j].kind = "report" /\ told[j].over))

(* A completion notice is about a run that has ended; a notice withheld    *)
(* for a turn in which "the parent pulled" the result "is dropped".        *)
NudgesAreEnds == \A i \in DOMAIN told : told[i].kind = "nudge" => told[i].over

(* With nothing under way, the parent has been told how every ended run    *)
(* ended: no claim, abandoned wait or withheld notice swallows an outcome. *)
AtRest == Idle /\ ~parentActive /\ ~disposed
OutcomesTold ==
  AtRest => \A r \in Run : status[r] = "over" => Told(r) \/ Outsider \in claims[r]

(* ... and of every update its child sent along the way. *)
UpdatesTold ==
  AtRest => \A r \in Run : status[r] = "over" /\ Outsider \notin claims[r] =>
    \A i \in DOMAIN updates[r] : Heard(<<r, i>>)

(* Of a run whose updates all differ, so that the copies can be told apart: *)
Distinct(r) ==
  \A i, j \in DOMAIN updates[r] : updates[r][i].message = updates[r][j].message => i = j

(* ... an update is announced only as news, when neither an announcement   *)
(* nor a report has brought it before ("a message reaches the parent       *)
(* once"),                                                                 *)
AnnouncedUpdateIsNews ==
  \A i \in DOMAIN told : told[i].kind = "update" /\ Distinct(told[i].run) =>
    \A j \in 1 .. i - 1 : told[j].updates \cap told[i].updates = {}

(* ... and "no carrier repeats" an update that was announced.              *)
ReportsOnlyOwed ==
  \A i, j \in DOMAIN told :
    i < j /\ told[i].kind = "update" /\ Distinct(told[i].run) =>
      told[i].updates \cap told[j].updates = {}

(* A live update never follows the outcome of its run: its steering offer  *)
(* would be void.                                                          *)
UpdatesPrecedeOutcome ==
  \A i, j \in DOMAIN told :
    /\ i < j
    /\ told[i].kind = "nudge" \/ (told[i].kind = "report" /\ told[i].over)
    /\ told[j].kind = "update"
    => told[i].run # told[j].run

(* What a run collected by a tool call ends with has been told: the report *)
(* was made after its turn loop returned, with its result and the place    *)
(* its work was saved.                                                     *)
CollectedWhole ==
  AtRest => \A r \in Run : status[r] = "over" /\ consumed[r] => Told(r)

(* Once disposed, nothing is announced any more: an abort during shutdown  *)
(* raises no notice that Pi cannot recall.                                 *)
SilentOnceDisposed ==
  [][disposed /\ told' # told => Last(told').kind = "report"]_vars

(* Every run that ends is told to the parent in the end. *)
EveryEndIsTold ==
  \A r \in Run : status[r] \notin {"unborn"} ~> Told(r) \/ Outsider \in claims[r] \/ disposed
=============================================================================
