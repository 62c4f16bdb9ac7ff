------------------------ MODULE PermissionForwarding ------------------------
(***************************************************************************)
(* How a subagent's permission request reaches the human of its parent     *)
(* session (pi-permission-system/src/authority: approval-escalator.ts,     *)
(* forwarding-manager.ts, forwarded-request-server.ts, forwarding-io.ts,   *)
(* forwarding-liveness.ts, serving-registry.ts; handlers/lifecycle.ts and  *)
(* session/permission-session.ts for the session's life).                  *)
(*                                                                         *)
(* A child writes a request file into the inbox of the session it takes    *)
(* for its parent and polls for a response file.  The parent's timer       *)
(* drains the inbox of its live session id, one request after another,     *)
(* and each of them may wait for a link of the chain and for a human.  The *)
(* two sides share files, a heartbeat and, in one process, a registry;     *)
(* either may give up, stop or die at any moment.                          *)
(***************************************************************************)
EXTENDS AskDialogs, FiniteSets

CONSTANTS
  Request,   \* forwarded requests, numbered in the order of their file names
  InProcess, \* the requests of children in the parent's process
  Kind,      \* request -> what a session grant for it covers
  ParentIds, \* request -> the ids that its spawner may have recorded
  LocalAsk,  \* asks of the parent's own gate
  Id,        \* session ids
  Drain,     \* bound: runs of processInbox that can be under way
  Grace,     \* PERMISSION_FORWARDING_SERVING_GRACE_MS, in polls
  MaxFaults  \* bound: id changes, stops, crashes and blocked event loops

None == "none"

ASSUME RequestAssumption == Request \subseteq Nat /\ InProcess \subseteq Request
ASSUME AskAssumption == Ask = Drain \cup LocalAsk /\ Drain \cap LocalAsk = {}
ASSUME GraceAssumption == Grace \in Nat \ {0} /\ MaxFaults \in Nat
ASSUME IdAssumption == None \notin Id /\ ParentIds \in [Request -> SUBSET Id]

VARIABLES
  child,     \* request -> "idle", "prepared", "waiting", "answered",
             \* "abandoned", or "dead"
  target,    \* request -> the session id it is addressed to
  unserved,  \* request -> polls since its target began to look unserved
  requests,  \* the request files
  responses, \* the requests with a response file
  dirs,      \* id -> which of "requests" and "responses" exist
  up,        \* the parent's process runs
  active,    \* its session is bound to a context: the timer runs
  liveId,    \* the id its context answers with
  served,    \* ForwardingManager.servingSessionId
  marks,     \* ServingSessionRegistry
  beat,      \* id -> how its heartbeat file reads
  processing,\* ForwardingManager.processing
  drain,     \* the runs of processInbox
  grants,    \* SessionRules: the kinds granted for the whole session
  faults,    \* bound: how many of them there have been
  outlived   \* history: a run of processInbox outlived its session

childVars == <<child, target, unserved>>
fileVars == <<requests, responses, dirs>>
servingVars == <<served, marks, beat>>
sessionVars == <<up, active, liveId, faults, outlived>>
vars == <<childVars, fileVars, servingVars, sessionVars, processing, drain, grants, dialogVars>>

IdleDrain == [doing |-> "idle", inbox |-> None, todo |-> {}, cur |-> 0]

TypeOK ==
  /\ DialogTypeOK
  /\ child \in [Request -> {"idle", "prepared", "waiting", "answered", "abandoned", "dead"}]
  /\ target \in [Request -> Id \cup {None}]
  /\ unserved \in [Request -> 0 .. Grace]
  /\ requests \subseteq Request
  /\ responses \subseteq Request
  /\ dirs \in [Id -> SUBSET {"requests", "responses"}]
  /\ {up, active, processing, outlived} \subseteq BOOLEAN
  /\ liveId \in Id /\ served \in Id \cup {None}
  /\ marks \subseteq Id
  /\ beat \in [Id -> {"absent", "alive", "stale", "dead_pid"}]
  /\ drain \in [Drain -> [doing : {"idle", "next", "judged", "asked"}, inbox : Id \cup {None},
                          todo : SUBSET Request, cur : Request \cup {0}]]
  /\ grants \subseteq {Kind[r] : r \in Request}
  /\ faults \in 0 .. MaxFaults

Init ==
  /\ DialogInit
  /\ child = [r \in Request |-> "idle"]
  /\ target = [r \in Request |-> None]
  /\ unserved = [r \in Request |-> 0]
  /\ requests = {}
  /\ responses = {}
  /\ dirs = [i \in Id |-> {}]
  /\ up = TRUE /\ active = FALSE /\ liveId \in Id /\ faults = 0 /\ outlived = FALSE
  /\ served = None /\ marks = {} /\ beat = [i \in Id |-> "absent"]
  /\ processing = FALSE
  /\ drain = [d \in Drain |-> IdleDrain]
  /\ grants = {}

-----------------------------------------------------------------------------
(* Bugs the properties must catch, each in place of a definition below. *)

RemovedEagerly(i, rq, rs) ==
  IF \E r \in rs : target[r] = i THEN dirs
  ELSE [dirs EXCEPT ![i] = @ \ {"responses"}]
NeverUnserved(r) == 0
AlwaysOpen(b) == FALSE
MisaddressedByNow(d, r) == r \notin requests \/ target[r] # liveId

-----------------------------------------------------------------------------
(* Files and liveness. *)

Fault == faults < MaxFaults /\ faults' = faults + 1

Inbox(i, rq) == {r \in rq : target[r] = i}

(* cleanupPermissionForwardingLocationIfEmpty: responses/ goes only when    *)
(* requests/ has gone.                                                     *)
CleanedUp(i, rq, rs) ==
  LET empty == IF \E r \in rs : target[r] = i
               THEN {"requests"} ELSE {"requests", "responses"}
  IN IF Inbox(i, rq) = {} THEN [dirs EXCEPT ![i] = @ \ empty] ELSE dirs

(* ForwardingLivenessJudge: the registry answers for a child that shares    *)
(* the process, the heartbeat for any other.                               *)
IsServing(r) ==
  IF r \in InProcess THEN target[r] \in marks ELSE beat[target[r]] = "alive"

(* Polls since the target began to look unserved, or 0 while it is served. *)
UnservedFor(r) == IF IsServing(r) THEN 0 ELSE unserved[r] + 1

-----------------------------------------------------------------------------
(* The child: ParentAuthorizer. *)

(* discardRequest, with the response file when it was read. *)
Discard(r, rs) ==
  /\ requests' = requests \ {r}
  /\ responses' = rs
  /\ dirs' = CleanedUp(target[r], requests \ {r}, rs)

(* The directories are made and the request is written.  A child in the     *)
(* parent's process does both in one turn of the event loop.  The id is     *)
(* what the spawner recorded; the parent's may since have changed.         *)
Forward(r) ==
  /\ child[r] = "idle"
  /\ r \in InProcess => up
  /\ \E i \in ParentIds[r] :
       /\ target' = [target EXCEPT ![r] = i]
       /\ dirs' = [dirs EXCEPT ![i] = {"requests", "responses"}]
  /\ IF r \in InProcess
     THEN child' = [child EXCEPT ![r] = "waiting"] /\ requests' = requests \cup {r}
     ELSE child' = [child EXCEPT ![r] = "prepared"] /\ UNCHANGED requests
  /\ UNCHANGED <<unserved, responses, servingVars, sessionVars, processing, drain, grants, dialogVars>>

(* The write fails if the parent's cleanup has taken the directory away. *)
WriteRequest(r) ==
  /\ child[r] = "prepared"
  /\ IF "requests" \in dirs[target[r]]
     THEN /\ requests' = requests \cup {r}
          /\ child' = [child EXCEPT ![r] = "waiting"]
          /\ UNCHANGED <<responses, dirs>>
     ELSE /\ Discard(r, responses)
          /\ child' = [child EXCEPT ![r] = "abandoned"]
  /\ UNCHANGED <<target, unserved, servingVars, sessionVars, processing, drain, grants, dialogVars>>

(* One turn of the polling loop: the response, then the target's liveness. *)
(* A response that cannot be read ends the wait like an abandonment.       *)
ReadResponse(r) ==
  /\ child[r] = "waiting" /\ r \in responses
  /\ \E end \in {"answered", "abandoned"} : child' = [child EXCEPT ![r] = end]
  /\ Discard(r, responses \ {r})
  /\ UNCHANGED <<target, unserved, servingVars, sessionVars, processing, drain, grants, dialogVars>>

CheckLiveness(r) ==
  /\ child[r] = "waiting" /\ r \notin responses
  /\ IF UnservedFor(r) <= Grace
     THEN /\ unserved' = [unserved EXCEPT ![r] = UnservedFor(r)]
          /\ UNCHANGED <<child, fileVars>>
     ELSE /\ child' = [child EXCEPT ![r] = "abandoned"]
          /\ Discard(r, responses)
          /\ UNCHANGED unserved
  /\ UNCHANGED <<target, servingVars, sessionVars, processing, drain, grants, dialogVars>>

(* The deadline passes during a sleep: the loop is left without a look at   *)
(* the response.                                                           *)
TimeOut(r) ==
  /\ child[r] = "waiting"
  /\ child' = [child EXCEPT ![r] = "abandoned"]
  /\ Discard(r, responses)
  /\ UNCHANGED <<target, unserved, servingVars, sessionVars, processing, drain, grants, dialogVars>>

(* A child in a process of its own dies and leaves its files. *)
ChildDies(r) ==
  /\ r \notin InProcess /\ child[r] \in {"prepared", "waiting"}
  /\ child' = [child EXCEPT ![r] = "dead"]
  /\ UNCHANGED <<target, unserved, fileVars, servingVars, sessionVars, processing, drain, grants, dialogVars>>

-----------------------------------------------------------------------------
(* The parent's timer: ForwardingManager. *)

Announced(i) == (marks \ {served}) \cup {i}

(* announceServing: the previous id is withdrawn on both channels; the      *)
(* first heartbeat of a process sweeps the records of dead ones.           *)
Announce(i) ==
  /\ served' = i
  /\ marks' = Announced(i)
  /\ beat' = [j \in Id |-> CASE j = i -> "alive"
                             [] j # i /\ (j = served \/ beat[j] = "dead_pid") -> "absent"
                             [] OTHER -> beat[j]]

AnnounceAsBefore == Announce(served)

(* refreshServing asks the context for its id, which may have changed. *)
RefreshServing == Announce(liveId)

(* A tick with the lock held only refreshes; otherwise processInbox lists   *)
(* the inbox once and makes responses/ anew.                               *)
Locked(b) == b
FreeDrain == {d \in Drain : drain[d].doing = "idle" /\ ask[d] = "none" /\ d \notin screen}

Tick ==
  /\ up /\ active
  /\ RefreshServing
  /\ LET files == Inbox(liveId, requests)
     IN IF ~Locked(processing) /\ files # {} /\ FreeDrain # {}
        THEN /\ LET d == CHOOSE e \in FreeDrain : TRUE
                IN drain' = [drain EXCEPT ![d] =
                     [doing |-> "next", inbox |-> liveId, todo |-> files, cur |-> 0]]
             /\ processing' = TRUE
             /\ dirs' = [dirs EXCEPT ![liveId] = @ \cup {"responses"}]
        ELSE UNCHANGED <<drain, processing, dirs>>
  /\ UNCHANGED <<childVars, requests, responses, sessionVars, grants, dialogVars>>

(* The parent's event loop is blocked for longer than the heartbeat lasts. *)
HeartbeatStale ==
  /\ up /\ Fault
  /\ \E i \in Id : beat[i] = "alive" /\ beat' = [beat EXCEPT ![i] = "stale"]
  /\ UNCHANGED <<childVars, fileVars, served, marks, up, active, liveId, outlived, processing, drain, grants, dialogVars>>

-----------------------------------------------------------------------------
(* A run of processInbox: ForwardedRequestServer. *)

(* The list is read once and served in the order of the files' names.       *)
HasFile(d) == drain[d].doing = "next" /\ drain[d].todo # {}
NextFile(d) == Min(drain[d].todo)

(* recordForwardedDecision, after applyGrantScope: a grant for the serving  *)
(* session is recorded here and told the child as a plain approval.  A      *)
(* response that cannot be written leaves the request where it is.         *)
Respond(d, r, v) ==
  /\ grants' = IF v = "decided_for_session" THEN grants \cup {Kind[r]} ELSE grants
  /\ drain' = [drain EXCEPT ![d].doing = "next", ![d].todo = @ \ {r}, ![d].cur = 0]
  /\ IF "responses" \in dirs[drain[d].inbox]
     THEN /\ responses' = responses \cup {r}
          /\ requests' = requests \ {r}
     ELSE UNCHANGED <<responses, requests>>
  /\ UNCHANGED dirs

Undisturbed == UNCHANGED <<childVars, servingVars, sessionVars, processing>>

(* The next file of the list may be gone by now, or be addressed to another *)
(* session than the one the drain began for: it is deleted and passed over.*)
Unusable(d, r) == r \notin requests \/ target[r] # drain[d].inbox

SkipUnusable(d) ==
  /\ HasFile(d)
  /\ Unusable(d, NextFile(d))
  /\ drain' = [drain EXCEPT ![d].todo = @ \ {NextFile(d)}]
  /\ requests' = requests \ {NextFile(d)}
  /\ UNCHANGED <<responses, dirs, grants, dialogVars>> /\ Undisturbed

(* Recorded authority first: a grant of this session, or any rule that the  *)
(* configuration has at this moment.                                       *)
RuledByPolicy(d) ==
  /\ HasFile(d)
  /\ LET r == NextFile(d)
     IN /\ ~Unusable(d, r)
        /\ Respond(d, r, "decided")
  /\ UNCHANGED dialogVars /\ Undisturbed

(* Otherwise the ask is escalated: without a session that fails, with links *)
(* configured they come first, and the terminal shows a dialog.            *)
Escalate(d) ==
  /\ HasFile(d)
  /\ LET r == NextFile(d)
     IN /\ ~Unusable(d, r) /\ Kind[r] \notin grants
        /\ \/ /\ ~active
              /\ Respond(d, r, Unavailable)
              /\ UNCHANGED dialogVars
           \/ /\ active
              /\ \/ Admit(d) /\ drain' = [drain EXCEPT ![d].doing = "asked", ![d].cur = r]
                 \/ /\ drain' = [drain EXCEPT ![d].doing = "judged", ![d].cur = r]
                    /\ UNCHANGED dialogVars
              /\ UNCHANGED <<fileVars, grants>>
  /\ Undisturbed

(* A link decides, breaks, or defers to the terminal the chain was composed *)
(* with, whatever has become of the session.                               *)
LinkDecides(d) ==
  /\ drain[d].doing = "judged"
  /\ \E v \in {"decided", Unavailable} : Respond(d, drain[d].cur, v)
  /\ UNCHANGED dialogVars /\ Undisturbed

LinkDefers(d) ==
  /\ drain[d].doing = "judged"
  /\ Admit(d)
  /\ drain' = [drain EXCEPT ![d].doing = "asked"]
  /\ UNCHANGED <<fileVars, grants>> /\ Undisturbed

DialogAnswered(d) ==
  /\ drain[d].doing = "asked" /\ ask[d] = "settled"
  /\ Respond(d, drain[d].cur, answer[d])
  /\ Consumed(d) /\ Undisturbed

(* The list is through; the finally callback opens the lock. *)
EndDrain(d) ==
  /\ drain[d].doing = "next" /\ drain[d].todo = {}
  /\ drain' = [drain EXCEPT ![d] = IdleDrain]
  /\ dirs' = CleanedUp(drain[d].inbox, requests, responses)
  /\ processing' = FALSE
  /\ UNCHANGED <<childVars, requests, responses, servingVars, sessionVars, grants, dialogVars>>

-----------------------------------------------------------------------------
(* The parent's session. *)

(* The gate's own asks share the queue. *)
RaiseLocal(l) ==
  /\ active /\ Admit(l)
  /\ UNCHANGED <<fileVars, drain, grants>> /\ Undisturbed

LocalAnswered(l) ==
  /\ ask[l] = "settled" /\ Consumed(l)
  /\ UNCHANGED <<fileVars, drain, grants>> /\ Undisturbed

DialogStepAlone(a) ==
  /\ DialogStep(a)
  /\ UNCHANGED <<fileVars, drain, grants>> /\ Undisturbed

StartSession(i) ==
  /\ ~active
  /\ up' = TRUE /\ active' = TRUE /\ liveId' = i
  /\ Announce(i)
  /\ UNCHANGED <<childVars, fileVars, faults, outlived, processing, drain, grants, dialogVars>>

(* The id changes in place, without an event. *)
ChangeId(i) ==
  /\ active /\ Fault
  /\ i # liveId /\ liveId' = i
  /\ UNCHANGED <<childVars, fileVars, servingVars, up, active, outlived, processing, drain, grants, dialogVars>>

(* handleSessionShutdown: the asks are released, the rules cleared, and     *)
(* stop() opens the lock whatever is under way.                            *)
Shutdown ==
  /\ active /\ Fault
  /\ ReleaseAll
  /\ grants' = {}
  /\ active' = FALSE
  /\ served' = None
  /\ marks' = marks \ {served}
  /\ beat' = [beat EXCEPT ![served] = "absent"]
  /\ processing' = FALSE
  /\ outlived' = (outlived \/ \E d \in Drain : drain[d].doing # "idle")
  /\ UNCHANGED <<childVars, fileVars, up, liveId, drain>>

(* The process is killed: files and heartbeats are all that stays. *)
Crash ==
  /\ active /\ Fault
  /\ up' = FALSE /\ active' = FALSE
  /\ child' = [r \in Request |-> IF r \in InProcess /\ child[r] = "waiting" THEN "dead" ELSE child[r]]
  /\ served' = None /\ marks' = {}
  /\ beat' = [i \in Id |-> IF beat[i] = "absent" THEN "absent" ELSE "dead_pid"]
  /\ processing' = FALSE
  /\ drain' = [d \in Drain |-> IdleDrain]
  /\ grants' = {}
  /\ outlived' = FALSE
  /\ DialogsLost
  /\ UNCHANGED <<target, unserved, fileVars, liveId>>

ChildStep(r) ==
  \/ Forward(r) \/ WriteRequest(r) \/ ReadResponse(r) \/ CheckLiveness(r)
  \/ TimeOut(r) \/ ChildDies(r)

DrainStep(d) ==
  \/ SkipUnusable(d) \/ RuledByPolicy(d) \/ Escalate(d) \/ LinkDecides(d)
  \/ LinkDefers(d) \/ DialogAnswered(d) \/ EndDrain(d)

Next ==
  \/ \E r \in Request : ChildStep(r)
  \/ \E d \in Drain : DrainStep(d)
  \/ \E a \in Ask : DialogStepAlone(a)
  \/ \E l \in LocalAsk : RaiseLocal(l) \/ LocalAnswered(l)
  \/ \E i \in Id : StartSession(i) \/ ChangeId(i)
  \/ Tick \/ HeartbeatStale \/ Shutdown \/ Crash

Spec == Init /\ [][Next]_vars

(* A child in the loop polls; callbacks and microtasks run; a link settles  *)
(* by its own timeout; a human who has begun to answer comes to an end,    *)
(* and the clock of a dialog nobody touches runs out.  Nothing is assumed  *)
(* of the deadline, of the timer, or of a human who has not begun.         *)
Fairness ==
  /\ \A r \in Request : WF_vars(ReadResponse(r)) /\ WF_vars(CheckLiveness(r))
  /\ \A d \in Drain : WF_vars(DrainStep(d))
  /\ \A a \in Ask :
       /\ WF_vars(Present(a) /\ DialogStepAlone(a))
       /\ WF_vars(Expire(a) /\ DialogStepAlone(a))
       /\ WF_vars(Timed /\ a \notin clock /\ HumanRules(a) /\ DialogStepAlone(a))

FairSpec == Spec /\ Fairness

-----------------------------------------------------------------------------
(* No child waits for nothing: its request is in the inbox or its answer    *)
(* has been written.  (Both sides delete both files and directories:       *)
(* approval-escalator.ts:449-463, forwarded-request-server.ts:242-299,     *)
(* forwarding-io.ts:413-437.)                                              *)
NobodyWaitsForNothing ==
  \A r \in Request : child[r] = "waiting" => r \in requests \cup responses

(* While no run of processInbox has outlived its session, one request at a  *)
(* time is served, so that no human is asked twice about it.  (The lock of *)
(* forwarding-manager.ts:81-86.)                                           *)
OneDrainAtATime ==
  outlived \/ \A d, e \in Drain : d # e => drain[d].doing = "idle" \/ drain[e].doing = "idle"

(* The decision a drain comes to about a child that still waits is written  *)
(* where the child looks, whatever cleanups have run since the drain began. *)
(* (The write loop of issue #398: forwarded-request-server.ts:259-270.)    *)
RulingReachesChild ==
  [][\A d \in Drain : LET r == drain[d].cur IN
       (r # 0 /\ drain'[d].cur = 0 /\ up' /\ child[r] = "waiting") => r \in responses']_vars

(* What is announced is what is drained: a run of processInbox begins on    *)
(* the one id the registry names, though ids change in place.              *)
(* (forwarding-manager.ts:128-137.)                                        *)
AnnouncedIsDrained ==
  [][\A d \in Drain :
       (drain[d].doing = "idle" /\ drain'[d].doing # "idle") => marks' = {drain'[d].inbox}]_vars

(* A drain always comes to its end and the inbox is never held closed: no   *)
(* dialog, no release and no end of a session strands it.  (Issue #965:    *)
(* ask-dialog-queue.ts:27-35.)                                             *)
InboxKeepsMoving ==
  \A d \in Drain : drain[d].doing # "idle" ~> drain[d].doing = "idle"

(* A child does not wait for good for a parent that serves it no more, even *)
(* with no deadline at all.  (approval-escalator.ts:385-407.)              *)
UnservedChildEnds ==
  \A r \in Request : []<>(child[r] = "waiting" => IsServing(r))
=============================================================================
