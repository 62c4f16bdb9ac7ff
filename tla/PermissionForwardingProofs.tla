---------------------- MODULE PermissionForwardingProofs ----------------------
(***************************************************************************)
(* Forwarded requests and the dialogs they share with the parent's own     *)
(* gate, for any number of requests, runs of processInbox, asks and ids,   *)
(* and any number of faults.                                               *)
(*                                                                         *)
(* The invariant comes in three parts, each inductive given the ones       *)
(* before it: the dialogs alone, the announced id and the lock, and the    *)
(* files together with the lists the runs of processInbox work through.    *)
(***************************************************************************)
EXTENDS PermissionForwarding, WellFoundedInduction, SequenceTheorems, TLAPS

DialogTypes ==
  /\ ask \in [Ask -> {"none", "queued", "shown", "settled"}]
  /\ tail \in Seq(Ask)

(* The tail holds asks nobody has answered, each once, and only the first  *)
(* of them can be shown; a dialog the session waits for is the first's.    *)
DialogInv ==
  /\ \A i \in 1 .. Len(tail) : ask[tail[i]] \in {"queued", "shown"}
  /\ \A i, j \in 1 .. Len(tail) : tail[i] = tail[j] => i = j
  /\ \A a \in Ask : ask[a] = "shown" => MyTurn(a)

ServingTypes ==
  /\ drain \in [Drain -> [doing : {"idle", "next", "judged", "asked"}, inbox : Id \cup {None},
                          todo : SUBSET Request, cur : Request \cup {0}]]
  /\ liveId \in Id /\ served \in Id \cup {None}
  /\ processing \in BOOLEAN /\ outlived \in BOOLEAN

(* Only the served id is announced, and until a run of processInbox has    *)
(* outlived its session the lock is held by the one that is under way.     *)
ServingInv ==
  /\ marks \subseteq {served} \ {None}
  /\ outlived \/ \A d \in Drain : drain[d].doing # "idle" => processing
  /\ OneDrainAtATime

FileTypes ==
  /\ child \in [Request -> {"idle", "prepared", "waiting", "answered", "abandoned", "dead"}]
  /\ target \in [Request -> Id \cup {None}]
  /\ requests \subseteq Request
  /\ responses \subseteq Request
  /\ dirs \in [Id -> SUBSET {"requests", "responses"}]

(* A request file lies in a directory that is there, with a directory for  *)
(* its response; it is where its child was sent, and nobody sends it on.   *)
InboxInv ==
  /\ \A r \in Request : child[r] # "idle" => target[r] \in Id
  /\ \A r \in requests : child[r] # "idle" /\ "requests" \in dirs[target[r]]
  /\ \A i \in Id : "requests" \in dirs[i] => "responses" \in dirs[i]
  /\ NobodyWaitsForNothing

(* A list names requests of its own inbox; a request that a link or a      *)
(* human has before it is the next on the list.                            *)
ListInv ==
  \A d \in Drain :
    /\ \A r \in drain[d].todo : child[r] # "idle" /\ target[r] = drain[d].inbox
    /\ drain[d].doing \in {"judged", "asked"} => drain[d].todo # {} /\ drain[d].cur = NextFile(d)
    /\ drain[d].doing \in {"idle", "next"} => drain[d].cur = 0

(* The inductive invariant. *)
ForwardInv ==
  /\ DialogTypes /\ DialogInv
  /\ ServingTypes /\ ServingInv
  /\ FileTypes /\ InboxInv /\ ListInv

-----------------------------------------------------------------------------
(* The dialogs. *)

(* What the other side does to the dialogs.                                *)
DialogMove ==
  \/ \E a \in Ask : Admit(a) \/ DialogStep(a) \/ (ask[a] = "settled" /\ Consumed(a))
  \/ ReleaseAll \/ DialogsLost \/ UNCHANGED dialogVars

(* A dialog that settles, in whatever way, gives its turn away.            *)
LEMMA SettledKeeps ==
  ASSUME DialogTypes, DialogInv, NEW a \in Ask, NEW v, Settled(a, v)
  PROVE  (DialogTypes /\ DialogInv)'
<1>1. /\ ask' = [ask EXCEPT ![a] = IF ask[a] = "shown" THEN "settled" ELSE ask[a]]
      /\ tail' = TurnOver(a)
  BY DEF Settled
<1>2. /\ ask'[a] = (IF ask[a] = "shown" THEN "settled" ELSE ask[a])
      /\ \A b \in Ask : b # a => ask'[b] = ask[b]
      /\ ask' \in [Ask -> {"none", "queued", "shown", "settled"}]
  BY <1>1 DEF DialogTypes
<1>3. CASE MyTurn(a)
  <2>1. tail # <<>> /\ tail[1] = a /\ tail \in Seq(Ask) /\ tail' = Tail(tail)
    BY <1>1, <1>3 DEF MyTurn, TurnOver, DialogTypes
  <2>2. /\ tail' \in Seq(Ask) /\ Len(tail) \in Nat \ {0} /\ Len(tail') = Len(tail) - 1
        /\ \A i \in 1 .. Len(tail') : tail'[i] = tail[i + 1] /\ i + 1 \in 1 .. Len(tail)
    BY <2>1
  <2>3. \A i \in 1 .. Len(tail') : tail'[i] # a /\ tail'[i] \in Ask
    BY <2>1, <2>2 DEF DialogInv
  <2>4. \A i \in 1 .. Len(tail') : ask'[tail'[i]] \in {"queued", "shown"}
    BY <1>2, <2>2, <2>3 DEF DialogInv
  <2>5. \A i, j \in 1 .. Len(tail') : tail'[i] = tail'[j] => i = j
    BY <2>2 DEF DialogInv
  <2>6. \A b \in Ask : ask'[b] # "shown"
    BY <1>2, <2>1 DEF DialogInv, MyTurn
  <2>7. QED
    BY <1>2, <2>2, <2>4, <2>5, <2>6 DEF DialogTypes, DialogInv
<1>4. CASE ~MyTurn(a)
  <2>1. tail' = tail /\ ask[a] # "shown"
    BY <1>1, <1>4 DEF TurnOver, DialogInv
  <2>2. ask' = ask
    BY <1>2, <2>1 DEF DialogTypes
  <2>3. QED
    BY <2>1, <2>2 DEF DialogTypes, DialogInv, MyTurn
<1>5. QED
  BY <1>3, <1>4

LEMMA DialogsStep == DialogTypes /\ DialogInv /\ DialogMove => (DialogTypes /\ DialogInv)'
<1> SUFFICES ASSUME DialogTypes, DialogInv, DialogMove PROVE (DialogTypes /\ DialogInv)'
  OBVIOUS
<1>1. CASE UNCHANGED <<ask, tail>>
  BY <1>1 DEF DialogTypes, DialogInv, MyTurn
<1>2. ASSUME NEW a \in Ask, Admit(a) PROVE (DialogTypes /\ DialogInv)'
  <2>1. ask[a] = "none" /\ ask' = [ask EXCEPT ![a] = "queued"] /\ tail' = Append(tail, a) /\ tail \in Seq(Ask)
    BY <1>2 DEF Admit, DialogTypes
  <2>2. /\ tail' \in Seq(Ask) /\ Len(tail) \in Nat /\ Len(tail') = Len(tail) + 1
        /\ tail'[Len(tail) + 1] = a
        /\ \A i \in 1 .. Len(tail) : tail'[i] = tail[i] /\ tail[i] \in Ask
    BY <2>1
  <2>3. /\ ask'[a] = "queued" /\ \A b \in Ask : b # a => ask'[b] = ask[b]
        /\ ask' \in [Ask -> {"none", "queued", "shown", "settled"}]
    BY <2>1 DEF DialogTypes
  <2>4. \A i \in 1 .. Len(tail) : tail[i] # a
    BY <2>1 DEF DialogInv
  <2>5. \A i \in 1 .. Len(tail') : i \in 1 .. Len(tail) \/ i = Len(tail) + 1
    BY <2>2
  <2>6. \A i \in 1 .. Len(tail') : ask'[tail'[i]] \in {"queued", "shown"}
    BY <2>2, <2>3, <2>4, <2>5 DEF DialogInv
  <2>7. \A i, j \in 1 .. Len(tail') : tail'[i] = tail'[j] => i = j
    BY <2>2, <2>4, <2>5 DEF DialogInv
  <2>8. ASSUME NEW b \in Ask, ask'[b] = "shown" PROVE MyTurn(b)'
    <3>1. ask[b] = "shown"
      BY <2>3, <2>8
    <3>2. tail # <<>> /\ tail[1] = b
      BY <2>1, <3>1 DEF DialogInv, MyTurn
    <3>3. 1 \in 1 .. Len(tail)
      BY <2>1, <3>2
    <3>4. tail'[1] = b /\ tail' # <<>>
      BY <2>2, <3>2, <3>3
    <3>5. QED
      BY <3>4 DEF MyTurn
  <2>9. QED
    BY <2>2, <2>3, <2>6, <2>7, <2>8 DEF DialogTypes, DialogInv
<1>3. ASSUME NEW a \in Ask, Present(a) PROVE (DialogTypes /\ DialogInv)'
  <2>1. MyTurn(a) /\ ask' = [ask EXCEPT ![a] = "shown"] /\ UNCHANGED tail
    BY <1>3 DEF Present
  <2>2. /\ ask'[a] = "shown" /\ \A b \in Ask : b # a => ask'[b] = ask[b]
        /\ ask' \in [Ask -> {"none", "queued", "shown", "settled"}]
    BY <2>1 DEF DialogTypes
  <2>3. \A i \in 1 .. Len(tail) : tail[i] \in Ask
    BY DEF DialogTypes
  <2>4. QED
    BY <2>1, <2>2, <2>3 DEF DialogTypes, DialogInv, MyTurn
<1>4. ASSUME NEW a \in Ask, HumanRules(a) \/ Expire(a) \/ HostFails(a) PROVE (DialogTypes /\ DialogInv)'
  BY <1>4, SettledKeeps DEF HumanRules, Expire, HostFails
<1>5. ASSUME NEW a \in Ask, ask[a] = "settled", Consumed(a) PROVE (DialogTypes /\ DialogInv)'
  <2>1. ask' = [ask EXCEPT ![a] = "none"] /\ UNCHANGED tail
    BY <1>5 DEF Consumed
  <2>2. /\ ask'[a] = "none" /\ \A b \in Ask : b # a => ask'[b] = ask[b]
        /\ ask' \in [Ask -> {"none", "queued", "shown", "settled"}]
    BY <2>1 DEF DialogTypes
  <2>3. \A i \in 1 .. Len(tail) : tail[i] \in Ask /\ tail[i] # a
    BY <1>5 DEF DialogTypes, DialogInv
  <2>4. QED
    BY <2>1, <2>2, <2>3 DEF DialogTypes, DialogInv, MyTurn
<1>6. CASE ReleaseAll \/ DialogsLost
  <2>1. /\ tail' = <<>> /\ ask' \in [Ask -> {"none", "queued", "shown", "settled"}]
        /\ \A a \in Ask : ask'[a] # "shown"
    BY <1>6 DEF ReleaseAll, DialogsLost, Outstanding, DialogTypes
  <2>2. tail' \in Seq(Ask) /\ Len(tail') = 0
    BY <2>1
  <2>3. QED
    BY <2>1, <2>2 DEF DialogTypes, DialogInv
<1>7. QED
  BY <1>1, <1>2, <1>3, <1>4, <1>5, <1>6 DEF DialogMove, DialogStep, Engage, dialogVars

LEMMA DialogMoves == [Next]_vars => DialogMove
<1> SUFFICES ASSUME [Next]_vars PROVE DialogMove
  OBVIOUS
<1> USE DEF DialogMove
<1>0. Drain \subseteq Ask /\ LocalAsk \subseteq Ask
  BY AskAssumption
<1>1. CASE \E r \in Request : ChildStep(r)
  BY <1>1 DEF ChildStep, Forward, WriteRequest, ReadResponse, CheckLiveness, TimeOut, ChildDies
<1>2. ASSUME NEW d \in Drain, DrainStep(d) PROVE DialogMove
  BY <1>0, <1>2 DEF DrainStep, SkipUnusable, RuledByPolicy, Escalate, LinkDecides, LinkDefers,
     DialogAnswered, EndDrain
<1>3. CASE \E a \in Ask : DialogStepAlone(a)
  BY <1>3 DEF DialogStepAlone
<1>4. CASE \E l \in LocalAsk : RaiseLocal(l) \/ LocalAnswered(l)
  BY <1>0, <1>4 DEF RaiseLocal, LocalAnswered
<1>5. CASE \/ \E i \in Id : StartSession(i) \/ ChangeId(i)
           \/ Tick \/ HeartbeatStale \/ UNCHANGED vars
  BY <1>5 DEF StartSession, ChangeId, Tick, HeartbeatStale, vars
<1>6. CASE Shutdown \/ Crash
  BY <1>6 DEF Shutdown, Crash
<1>7. QED
  BY <1>1, <1>2, <1>3, <1>4, <1>5, <1>6 DEF Next

-----------------------------------------------------------------------------
(* The runs of processInbox, the lock and the announced id. *)

Drains == [doing : {"idle", "next", "judged", "asked"}, inbox : Id \cup {None},
           todo : SUBSET Request, cur : Request \cup {0}]

(* What becomes of one run while the others stay as they are.              *)
Becomes(d, doing, inbox, todo, cur) ==
  /\ drain' \in [Drain -> Drains]
  /\ \A e \in Drain : e # d => drain'[e] = drain[e]
  /\ drain'[d].doing = doing /\ drain'[d].inbox = inbox
  /\ drain'[d].todo = todo /\ drain'[d].cur = cur

LEMMA LeastRequest == ASSUME NEW T \in SUBSET Request, T # {} PROVE Min(T) \in T
<1> DEFINE Less == {ss \in Nat \X Nat : ss[1] < ss[2]}
<1>1. IsWellFoundedOn(Less, Nat)
  BY NatLessThanWellFounded, Zenon DEF OpToRel
<1>2. T \subseteq Nat
  BY RequestAssumption
<1>3. PICK m \in T : \A n \in T : <<n, m>> \notin Less
  <2> HIDE DEF Less
  <2>1. QED
    BY <1>1, <1>2, WFMin
<1>4. \A n \in T : m <= n
  <2>1. \A n \in T : n \in Nat /\ m \in Nat /\ ~(n < m)
    BY <1>2, <1>3
  <2>2. QED
    BY <2>1
<1>5. QED
  BY <1>4 DEF Min

LEMMA Responded ==
  ASSUME ServingTypes, NEW d \in Drain, NEW r, NEW v, Respond(d, r, v)
  PROVE  Becomes(d, "next", drain[d].inbox, drain[d].todo \ {r}, 0)
<1>1. drain' = [drain EXCEPT ![d].doing = "next", ![d].todo = drain[d].todo \ {r}, ![d].cur = 0]
  BY DEF Respond
<1>2. drain \in [Drain -> Drains]
  BY DEF ServingTypes, Drains
<1>3. QED
  BY <1>1, <1>2 DEF Becomes, Drains

(* Every step of a run of processInbox.                                    *)
LEMMA RunsStep ==
  ASSUME ServingTypes, NEW d \in Drain, DrainStep(d)
  PROVE  \/ /\ HasFile(d) /\ NextFile(d) \in drain[d].todo
            /\ \/ /\ Unusable(d, NextFile(d))
                  /\ Becomes(d, "next", drain[d].inbox, drain[d].todo \ {NextFile(d)}, drain[d].cur)
               \/ Becomes(d, "next", drain[d].inbox, drain[d].todo \ {NextFile(d)}, 0)
               \/ Becomes(d, "asked", drain[d].inbox, drain[d].todo, NextFile(d))
               \/ Becomes(d, "judged", drain[d].inbox, drain[d].todo, NextFile(d))
         \/ /\ drain[d].doing \in {"judged", "asked"}
            /\ \/ Becomes(d, "next", drain[d].inbox, drain[d].todo \ {drain[d].cur}, 0)
               \/ Becomes(d, "asked", drain[d].inbox, drain[d].todo, drain[d].cur)
         \/ drain[d].doing = "next" /\ Becomes(d, "idle", None, {}, 0) /\ processing' = FALSE
<1>1. drain \in [Drain -> Drains] /\ drain[d] \in Drains
  BY DEF ServingTypes, Drains
<1>2. HasFile(d) => NextFile(d) \in drain[d].todo /\ NextFile(d) \in Request
  BY <1>1, LeastRequest DEF HasFile, NextFile, Drains
<1>3. CASE SkipUnusable(d)
  <2>1. HasFile(d) /\ drain' = [drain EXCEPT ![d].todo = drain[d].todo \ {NextFile(d)}]
    BY <1>3 DEF SkipUnusable
  <2>2. drain[d].doing = "next"
    BY <2>1 DEF HasFile
  <2>3. Becomes(d, "next", drain[d].inbox, drain[d].todo \ {NextFile(d)}, drain[d].cur)
    BY <1>1, <2>1, <2>2 DEF Becomes, Drains
  <2>4. QED
    BY <1>2, <1>3, <2>1, <2>3 DEF SkipUnusable
<1>4. CASE RuledByPolicy(d)
  BY <1>2, <1>4, Responded DEF RuledByPolicy
<1>5. CASE Escalate(d)
  <2>1. CASE \E v : Respond(d, NextFile(d), v)
    BY <1>2, <1>5, <2>1, Responded DEF Escalate
  <2>2. CASE \E doing \in {"asked", "judged"} :
               drain' = [drain EXCEPT ![d].doing = doing, ![d].cur = NextFile(d)]
    <3>1. PICK doing \in {"asked", "judged"} :
            drain' = [drain EXCEPT ![d].doing = doing, ![d].cur = NextFile(d)]
      BY <2>2
    <3>2. HasFile(d)
      BY <1>5 DEF Escalate
    <3>3. Becomes(d, doing, drain[d].inbox, drain[d].todo, NextFile(d))
      BY <1>1, <1>2, <3>1, <3>2 DEF Becomes, Drains
    <3>4. QED
      BY <1>2, <3>2, <3>3
  <2>3. QED
    BY <1>5, <2>1, <2>2 DEF Escalate
<1>6. CASE LinkDecides(d) \/ DialogAnswered(d)
  BY <1>6, Responded DEF LinkDecides, DialogAnswered
<1>7. CASE LinkDefers(d)
  <2>1. drain[d].doing = "judged" /\ drain' = [drain EXCEPT ![d].doing = "asked"]
    BY <1>7 DEF LinkDefers
  <2>2. Becomes(d, "asked", drain[d].inbox, drain[d].todo, drain[d].cur)
    BY <1>1, <2>1 DEF Becomes, Drains
  <2>3. QED
    BY <2>1, <2>2
<1>8. CASE EndDrain(d)
  <2>1. drain' = [drain EXCEPT ![d] = IdleDrain] /\ drain[d].doing = "next" /\ processing' = FALSE
    BY <1>8 DEF EndDrain
  <2>2. Becomes(d, "idle", None, {}, 0)
    BY <1>1, <2>1 DEF Becomes, Drains, IdleDrain
  <2>3. QED
    BY <2>1, <2>2
<1>9. QED
  BY <1>3, <1>4, <1>5, <1>6, <1>7, <1>8 DEF DrainStep

LEMMA IdleDrainTyped == IdleDrain \in Drains
BY DEF IdleDrain, Drains

(* A tick begins a run on the live id, and only with the lock open.        *)
LEMMA TickBegins ==
  ASSUME ServingTypes, FileTypes, Tick
  PROVE  /\ \/ UNCHANGED <<drain, processing, dirs>>
            \/ /\ ~processing /\ processing'
               /\ \E d \in Drain : /\ drain[d].doing = "idle"
                                  /\ Becomes(d, "next", liveId, Inbox(liveId, requests), 0)
               /\ dirs' = [dirs EXCEPT ![liveId] = @ \cup {"responses"}]
         /\ served' = liveId /\ marks' = Announced(liveId)
<1>1. served' = liveId /\ marks' = Announced(liveId)
  BY DEF Tick, RefreshServing, Announce
<1>2. CASE UNCHANGED <<drain, processing, dirs>>
  BY <1>1, <1>2
<1>3. CASE ~UNCHANGED <<drain, processing, dirs>>
  <2> DEFINE d == CHOOSE e \in FreeDrain : TRUE
             files == Inbox(liveId, requests)
  <2>1. /\ ~processing /\ processing' = TRUE /\ FreeDrain # {}
        /\ drain' = [drain EXCEPT ![d] = [doing |-> "next", inbox |-> liveId, todo |-> files, cur |-> 0]]
        /\ dirs' = [dirs EXCEPT ![liveId] = @ \cup {"responses"}]
    BY <1>3 DEF Tick, Locked
  <2>2. d \in FreeDrain
    BY <2>1
  <2> HIDE DEF d, files
  <2>3. d \in Drain /\ drain[d].doing = "idle"
    BY <2>2 DEF FreeDrain
  <2>4. files \subseteq Request
    BY DEF files, Inbox, FileTypes
  <2>5. drain \in [Drain -> Drains] /\ liveId \in Id
    BY DEF ServingTypes, Drains
  <2>6. Becomes(d, "next", liveId, files, 0)
    <3>1. [doing |-> "next", inbox |-> liveId, todo |-> files, cur |-> 0] \in Drains
      BY <2>4, <2>5 DEF Drains
    <3>2. QED
      BY <2>1, <2>3, <2>5, <3>1 DEF Becomes
  <2>7. QED
    BY <1>1, <2>1, <2>3, <2>6 DEF files
<1>4. QED
  BY <1>2, <1>3

(* An id that is announced is the only one.                                *)
LEMMA AnnouncedAlone ==
  ASSUME ServingInv, NEW i \in Id
  PROVE  Announced(i) = {i}
BY IdAssumption DEF ServingInv, Announced

LEMMA ServingStep ==
  ServingTypes /\ ServingInv /\ FileTypes /\ [Next]_vars => (ServingTypes /\ ServingInv)'
<1> SUFFICES ASSUME ServingTypes, ServingInv, FileTypes, [Next]_vars
             PROVE  (ServingTypes /\ ServingInv)'
  OBVIOUS
<1>1. CASE UNCHANGED <<drain, liveId, served, processing, outlived, marks>>
  BY <1>1 DEF ServingTypes, ServingInv, OneDrainAtATime
<1>2. CASE \E r \in Request : ChildStep(r)
  BY <1>1, <1>2 DEF ChildStep, Forward, WriteRequest, ReadResponse, CheckLiveness, TimeOut, ChildDies,
     servingVars, sessionVars
<1>3. ASSUME NEW d \in Drain, DrainStep(d) PROVE (ServingTypes /\ ServingInv)'
  <2>1. /\ UNCHANGED <<liveId, served, outlived, marks>>
        /\ UNCHANGED processing \/ processing' = FALSE
    BY <1>3 DEF DrainStep, SkipUnusable, RuledByPolicy, Escalate, LinkDecides, LinkDefers,
       DialogAnswered, EndDrain, Undisturbed, servingVars, sessionVars
  <2>2. /\ drain[d].doing # "idle"
        /\ drain' \in [Drain -> Drains] /\ \A e \in Drain : e # d => drain'[e] = drain[e]
        /\ drain'[d].doing = "idle" \/ UNCHANGED processing
    <3>1. drain[d].doing # "idle"
      BY <1>3, RunsStep DEF HasFile
    <3>2. drain' \in [Drain -> Drains] /\ \A e \in Drain : e # d => drain'[e] = drain[e]
      BY <1>3, RunsStep DEF Becomes
    <3>3. drain'[d].doing = "idle" \/ UNCHANGED processing
      <4>1. CASE EndDrain(d)
        <5>1. drain' = [drain EXCEPT ![d] = IdleDrain]
          BY <4>1 DEF EndDrain
        <5>2. QED
          BY <5>1 DEF IdleDrain, ServingTypes
      <4>2. CASE ~EndDrain(d)
        BY <1>3, <4>2 DEF DrainStep, SkipUnusable, RuledByPolicy, Escalate, LinkDecides, LinkDefers,
           DialogAnswered, Undisturbed
      <4>3. QED
        BY <4>1, <4>2
    <3>4. QED
      BY <3>1, <3>2, <3>3
  <2>3. ServingTypes'
    BY <2>1, <2>2 DEF ServingTypes, Drains
  <2>4. ServingInv'
    BY <2>1, <2>2 DEF ServingInv, OneDrainAtATime, ServingTypes
  <2>5. QED
    BY <2>3, <2>4
<1>4. CASE Tick
  <2>1. UNCHANGED <<liveId, outlived>>
    BY <1>4 DEF Tick, sessionVars
  <2>2. liveId \in Id /\ served' = liveId /\ marks' = {liveId} /\ liveId # None
    BY <1>4, TickBegins, AnnouncedAlone, IdAssumption DEF ServingTypes
  <2>3. CASE UNCHANGED <<drain, processing, dirs>>
    BY <2>1, <2>2, <2>3 DEF ServingTypes, ServingInv, OneDrainAtATime
  <2>4. ASSUME ~processing, processing', NEW d \in Drain,
               Becomes(d, "next", liveId, Inbox(liveId, requests), 0),
               processing' \in BOOLEAN
        PROVE  (ServingTypes /\ ServingInv)'
    <3>1. ServingTypes'
      BY <2>1, <2>2, <2>4 DEF ServingTypes, Becomes, Drains
    <3>2. ServingInv'
      BY <2>1, <2>2, <2>4 DEF ServingInv, OneDrainAtATime, Becomes
    <3>3. QED
      BY <3>1, <3>2
  <2>5. processing' \in BOOLEAN
    BY <1>4 DEF Tick, ServingTypes
  <2>6. QED
    BY <1>4, <2>3, <2>4, <2>5, TickBegins
<1>5. ASSUME NEW i \in Id, StartSession(i) PROVE (ServingTypes /\ ServingInv)'
  <2>1. /\ UNCHANGED <<drain, processing, outlived>> /\ liveId' = i /\ served' = i /\ marks' = {i}
    BY <1>5, AnnouncedAlone DEF StartSession, Announce
  <2>2. i # None
    BY IdAssumption
  <2>3. QED
    BY <2>1, <2>2 DEF ServingTypes, ServingInv, OneDrainAtATime
<1>6. ASSUME NEW i \in Id, ChangeId(i) PROVE (ServingTypes /\ ServingInv)'
  BY <1>6 DEF ChangeId, servingVars, ServingTypes, ServingInv, OneDrainAtATime
<1>7. CASE Shutdown
  <2>1. /\ UNCHANGED <<drain, liveId>> /\ served' = None /\ marks' = marks \ {served}
        /\ processing' = FALSE
        /\ outlived' = (outlived \/ \E d \in Drain : drain[d].doing # "idle")
    BY <1>7 DEF Shutdown
  <2>2. QED
    BY <2>1 DEF ServingTypes, ServingInv, OneDrainAtATime
<1>8. CASE Crash
  <2>1. /\ UNCHANGED liveId /\ served' = None /\ marks' = {} /\ processing' = FALSE
        /\ outlived' = FALSE /\ drain' = [d \in Drain |-> IdleDrain]
    BY <1>8 DEF Crash
  <2>2. ServingTypes'
    BY <2>1, IdleDrainTyped DEF ServingTypes, Drains
  <2>3. ServingInv'
    BY <2>1 DEF ServingInv, OneDrainAtATime, IdleDrain
  <2>4. QED
    BY <2>2, <2>3
<1>9. CASE \/ \E a \in Ask : DialogStepAlone(a)
           \/ \E l \in LocalAsk : RaiseLocal(l) \/ LocalAnswered(l)
           \/ HeartbeatStale \/ UNCHANGED vars
  BY <1>1, <1>9 DEF DialogStepAlone, RaiseLocal, LocalAnswered, HeartbeatStale, Undisturbed,
     servingVars, sessionVars, vars
<1>10. QED
  BY <1>2, <1>3, <1>4, <1>5, <1>6, <1>7, <1>8, <1>9 DEF Next

-----------------------------------------------------------------------------
(* The files. *)

(* A cleanup leaves every directory that holds a request, and never takes  *)
(* the responses and leaves the requests.                                  *)
LEMMA CleanupKeeps ==
  ASSUME dirs \in [Id -> SUBSET {"requests", "responses"}], target \in [Request -> Id \cup {None}],
         NEW i, NEW rq \in SUBSET Request, NEW rs, dirs' = CleanedUp(i, rq, rs)
  PROVE  /\ dirs' \in [Id -> SUBSET {"requests", "responses"}]
         /\ \A j \in Id : "requests" \in dirs'[j] =>
              "requests" \in dirs[j] /\ ("responses" \in dirs[j] => "responses" \in dirs'[j])
         /\ \A r \in rq : target[r] \in Id /\ "requests" \in dirs[target[r]] =>
              "requests" \in dirs'[target[r]]
<1> DEFINE empty == IF \E r \in rs : target[r] = i THEN {"requests"} ELSE {"requests", "responses"}
<1>1. CASE Inbox(i, rq) # {}
  BY <1>1 DEF CleanedUp
<1>2. CASE Inbox(i, rq) = {}
  <2>1. dirs' = [dirs EXCEPT ![i] = dirs[i] \ empty] /\ "requests" \in empty
    BY <1>2 DEF CleanedUp
  <2> HIDE DEF empty
  <2>2. \A r \in rq : target[r] # i
    BY <1>2 DEF Inbox
  <2>3. \A j \in Id : dirs'[j] = IF j = i THEN dirs[j] \ empty ELSE dirs[j]
    BY <2>1
  <2>4. dirs' \in [Id -> SUBSET {"requests", "responses"}]
    BY <2>1
  <2>5. QED
    BY <2>1, <2>2, <2>3, <2>4
<1>3. QED
  BY <1>1, <1>2

(* A request is gone with its file and its child's wait.                   *)
LEMMA DiscardKeeps ==
  ASSUME FileTypes, InboxInv, ListInv, NEW r \in Request, NEW end \in {"answered", "abandoned"},
         child[r] \in {"prepared", "waiting"}, child' = [child EXCEPT ![r] = end],
         NEW rs \in {responses, responses \ {r}}, Discard(r, rs), UNCHANGED <<target, drain>>
  PROVE  (FileTypes /\ InboxInv /\ ListInv)'
<1>1. /\ requests' = requests \ {r} /\ responses' = rs
      /\ dirs' = CleanedUp(target[r], requests \ {r}, rs)
  BY DEF Discard
<1>2. /\ child'[r] = end /\ \A q \in Request : q # r => child'[q] = child[q]
      /\ child' \in [Request -> {"idle", "prepared", "waiting", "answered", "abandoned", "dead"}]
  BY DEF FileTypes
<1>3. /\ dirs' \in [Id -> SUBSET {"requests", "responses"}]
      /\ \A j \in Id : "requests" \in dirs'[j] =>
           "requests" \in dirs[j] /\ ("responses" \in dirs[j] => "responses" \in dirs'[j])
      /\ \A q \in requests \ {r} : target[q] \in Id /\ "requests" \in dirs[target[q]] =>
           "requests" \in dirs'[target[q]]
  BY <1>1, CleanupKeeps DEF FileTypes
<1>4. FileTypes'
  BY <1>1, <1>2, <1>3 DEF FileTypes
<1>5. InboxInv'
  <2>1. \A q \in Request : child'[q] # "idle" => target'[q] \in Id
    BY <1>2 DEF InboxInv
  <2>2. \A q \in requests' : child'[q] # "idle" /\ "requests" \in dirs'[target'[q]]
    BY <1>1, <1>2, <1>3 DEF InboxInv, FileTypes
  <2>3. \A i \in Id : "requests" \in dirs'[i] => "responses" \in dirs'[i]
    BY <1>3 DEF InboxInv
  <2>4. NobodyWaitsForNothing'
    BY <1>1, <1>2 DEF InboxInv, NobodyWaitsForNothing
  <2>5. QED
    BY <2>1, <2>2, <2>3, <2>4 DEF InboxInv
<1>6. ListInv'
  <2>1. \A q : child[q] # "idle" => child'[q] # "idle"
    BY DEF FileTypes
  <2>2. QED
    BY <2>1 DEF ListInv, NextFile
<1>7. QED
  BY <1>4, <1>5, <1>6

LEMMA ChildrenStep ==
  ASSUME ServingTypes, FileTypes, InboxInv, ListInv, NEW r \in Request, ChildStep(r)
  PROVE  (FileTypes /\ InboxInv /\ ListInv)'
<1>0. UNCHANGED drain
  BY DEF ChildStep, Forward, WriteRequest, ReadResponse, CheckLiveness, TimeOut, ChildDies
<1>1. CASE Forward(r)
  <2>1. PICK i \in ParentIds[r] : /\ target' = [target EXCEPT ![r] = i]
                                 /\ dirs' = [dirs EXCEPT ![i] = {"requests", "responses"}]
    BY <1>1 DEF Forward
  <2>2. /\ child[r] = "idle" /\ UNCHANGED responses
        /\ \/ child' = [child EXCEPT ![r] = "waiting"] /\ requests' = requests \cup {r}
           \/ child' = [child EXCEPT ![r] = "prepared"] /\ UNCHANGED requests
    BY <1>1 DEF Forward
  <2>3. i \in Id
    BY IdAssumption
  <2>4. /\ target'[r] = i /\ \A q \in Request : q # r => target'[q] = target[q]
        /\ target' \in [Request -> Id \cup {None}]
    BY <2>1, <2>3 DEF FileTypes
  <2>5. /\ child'[r] \in {"waiting", "prepared"} /\ \A q \in Request : q # r => child'[q] = child[q]
        /\ child' \in [Request -> {"idle", "prepared", "waiting", "answered", "abandoned", "dead"}]
    BY <2>2 DEF FileTypes
  <2>6. /\ dirs' \in [Id -> SUBSET {"requests", "responses"}]
        /\ dirs'[i] = {"requests", "responses"} /\ \A j \in Id : j # i => dirs'[j] = dirs[j]
    BY <2>1, <2>3 DEF FileTypes
  <2>7. r \notin requests
    BY <2>2 DEF InboxInv
  <2>8. FileTypes'
    BY <2>2, <2>4, <2>5, <2>6 DEF FileTypes
  <2>9. InboxInv'
    <3>1. \A q \in Request : child'[q] # "idle" => target'[q] \in Id
      BY <2>3, <2>4, <2>5 DEF InboxInv
    <3>2. ASSUME NEW q \in requests' PROVE child'[q] # "idle" /\ "requests" \in dirs'[target'[q]]
      <4>1. CASE q = r
        BY <2>4, <2>5, <2>6, <4>1
      <4>2. CASE q # r
        <5>1. q \in requests /\ q \in Request
          BY <2>2, <4>2 DEF FileTypes
        <5>2. target[q] \in Id /\ "requests" \in dirs[target[q]] /\ child[q] # "idle"
          BY <5>1 DEF InboxInv
        <5>3. QED
          BY <2>4, <2>5, <2>6, <4>2, <5>1, <5>2
      <4>3. QED
        BY <4>1, <4>2
    <3>3. \A j \in Id : "requests" \in dirs'[j] => "responses" \in dirs'[j]
      BY <2>6 DEF InboxInv
    <3>4. NobodyWaitsForNothing'
      <4>1. child'[r] = "waiting" => r \in requests'
        BY <2>2 DEF FileTypes
      <4>2. QED
        BY <2>2, <2>5, <4>1 DEF InboxInv, NobodyWaitsForNothing
    <3>5. QED
      BY <3>1, <3>2, <3>3, <3>4 DEF InboxInv
  <2>10. ListInv'
    <3>1. \A q \in Request : child[q] # "idle" => child'[q] # "idle" /\ target'[q] = target[q]
      BY <2>2, <2>4, <2>5
    <3>2. \A d \in Drain : drain[d].todo \subseteq Request
      BY DEF ServingTypes
    <3>3. QED
      BY <1>0, <3>1, <3>2 DEF ListInv, NextFile
  <2>11. QED
    BY <2>8, <2>9, <2>10
<1>2. CASE WriteRequest(r)
  <2>1. child[r] = "prepared" /\ UNCHANGED target
    BY <1>2 DEF WriteRequest
  <2>2. CASE "requests" \in dirs[target[r]]
    <3>1. /\ requests' = requests \cup {r} /\ child' = [child EXCEPT ![r] = "waiting"]
          /\ UNCHANGED <<responses, dirs>>
      BY <1>2, <2>2 DEF WriteRequest
    <3>2. /\ child'[r] = "waiting" /\ \A q \in Request : q # r => child'[q] = child[q]
          /\ child' \in [Request -> {"idle", "prepared", "waiting", "answered", "abandoned", "dead"}]
          /\ \A q : child[q] # "idle" => child'[q] # "idle"
      BY <3>1 DEF FileTypes
    <3>3. FileTypes'
      BY <2>1, <3>1, <3>2 DEF FileTypes
    <3>4. InboxInv'
      BY <2>1, <2>2, <3>1, <3>2 DEF InboxInv, NobodyWaitsForNothing, FileTypes
    <3>5. ListInv'
      BY <1>0, <2>1, <3>2 DEF ListInv, NextFile
    <3>6. QED
      BY <3>3, <3>4, <3>5
  <2>3. CASE "requests" \notin dirs[target[r]]
    <3>1. Discard(r, responses) /\ child' = [child EXCEPT ![r] = "abandoned"]
      BY <1>2, <2>3 DEF WriteRequest
    <3>2. QED
      BY <1>0, <2>1, <3>1, DiscardKeeps
  <2>4. QED
    BY <2>2, <2>3
<1>3. CASE ReadResponse(r)
  <2>1. PICK end \in {"answered", "abandoned"} : child' = [child EXCEPT ![r] = end]
    BY <1>3 DEF ReadResponse
  <2>2. child[r] = "waiting" /\ Discard(r, responses \ {r}) /\ UNCHANGED target
    BY <1>3 DEF ReadResponse
  <2>3. QED
    BY <1>0, <2>1, <2>2, DiscardKeeps
<1>4. CASE CheckLiveness(r)
  <2>1. CASE UNCHANGED <<child, fileVars>>
    <3>1. UNCHANGED <<child, target, requests, responses, dirs>>
      BY <1>4, <2>1 DEF CheckLiveness, fileVars
    <3>2. QED
      BY <1>0, <3>1 DEF FileTypes, InboxInv, ListInv, NobodyWaitsForNothing, NextFile
  <2>2. CASE child' = [child EXCEPT ![r] = "abandoned"] /\ Discard(r, responses)
    <3>1. child[r] = "waiting" /\ UNCHANGED target
      BY <1>4 DEF CheckLiveness
    <3>2. QED
      BY <1>0, <2>2, <3>1, DiscardKeeps
  <2>3. QED
    BY <1>4, <2>1, <2>2 DEF CheckLiveness
<1>5. CASE TimeOut(r)
  <2>1. /\ child[r] = "waiting" /\ child' = [child EXCEPT ![r] = "abandoned"] /\ Discard(r, responses)
        /\ UNCHANGED target
    BY <1>5 DEF TimeOut
  <2>2. QED
    BY <1>0, <2>1, DiscardKeeps
<1>6. CASE ChildDies(r)
  <2>1. /\ child' = [child EXCEPT ![r] = "dead"] /\ child[r] # "idle"
        /\ UNCHANGED <<target, requests, responses, dirs>>
    BY <1>6 DEF ChildDies, fileVars
  <2>2. /\ child'[r] = "dead" /\ \A q \in Request : q # r => child'[q] = child[q]
        /\ child' \in [Request -> {"idle", "prepared", "waiting", "answered", "abandoned", "dead"}]
        /\ \A q : child[q] # "idle" => child'[q] # "idle"
    BY <2>1 DEF FileTypes
  <2>3. FileTypes'
    BY <2>1, <2>2 DEF FileTypes
  <2>4. InboxInv'
    BY <2>1, <2>2 DEF InboxInv, NobodyWaitsForNothing, FileTypes
  <2>5. ListInv'
    BY <1>0, <2>1, <2>2 DEF ListInv, NextFile
  <2>6. QED
    BY <2>3, <2>4, <2>5
<1>7. QED
  BY <1>1, <1>2, <1>3, <1>4, <1>5, <1>6 DEF ChildStep

(* What a step of a run of processInbox does to the files.                 *)
LEMMA RunsFiles ==
  ASSUME ServingTypes, FileTypes, ListInv, NEW d \in Drain, DrainStep(d)
  PROVE  /\ UNCHANGED <<child, target>>
         /\ \/ UNCHANGED <<requests, responses, dirs>>
            \/ /\ UNCHANGED dirs
               /\ \E r \in Request : requests' = requests \ {r} /\ responses' = responses \cup {r}
            \/ UNCHANGED <<requests, responses>> /\ dirs' = CleanedUp(drain[d].inbox, requests, responses)
<1>0. /\ HasFile(d) => NextFile(d) \in drain[d].todo /\ NextFile(d) \in Request
      /\ drain[d].doing \in {"judged", "asked"} => drain[d].cur \in Request
  <2>1. drain[d].todo \subseteq Request
    BY DEF ServingTypes
  <2>2. drain[d].todo # {} => NextFile(d) \in drain[d].todo
    BY <2>1, LeastRequest DEF NextFile
  <2>3. QED
    BY <2>1, <2>2 DEF HasFile, ListInv
<1>1. ASSUME NEW r \in Request, NEW v, Respond(d, r, v), UNCHANGED <<child, target>>
      PROVE  /\ UNCHANGED <<child, target>>
             /\ \/ UNCHANGED <<requests, responses, dirs>>
                \/ UNCHANGED dirs /\ requests' = requests \ {r} /\ responses' = responses \cup {r}
  BY <1>1 DEF Respond
<1>2. CASE SkipUnusable(d)
  <2>1. /\ HasFile(d) /\ Unusable(d, NextFile(d)) /\ requests' = requests \ {NextFile(d)}
        /\ UNCHANGED <<responses, dirs, child, target>>
    BY <1>2 DEF SkipUnusable, Undisturbed, childVars
  <2>2. NextFile(d) \notin requests
    BY <1>0, <2>1 DEF Unusable, ListInv
  <2>3. QED
    BY <2>1, <2>2
<1>3. CASE RuledByPolicy(d)
  BY <1>0, <1>1, <1>3 DEF RuledByPolicy, Undisturbed, childVars
<1>4. CASE Escalate(d)
  <2>1. UNCHANGED <<child, target>> /\ HasFile(d)
    BY <1>4 DEF Escalate, Undisturbed, childVars
  <2>2. Respond(d, NextFile(d), Unavailable) \/ UNCHANGED fileVars
    BY <1>4 DEF Escalate
  <2>3. QED
    BY <1>0, <1>1, <2>1, <2>2 DEF fileVars
<1>5. CASE LinkDecides(d) \/ DialogAnswered(d)
  BY <1>0, <1>1, <1>5 DEF LinkDecides, DialogAnswered, Undisturbed, childVars
<1>6. CASE LinkDefers(d)
  BY <1>6 DEF LinkDefers, Undisturbed, childVars, fileVars
<1>7. CASE EndDrain(d)
  BY <1>7 DEF EndDrain, childVars
<1>8. QED
  BY <1>2, <1>3, <1>4, <1>5, <1>6, <1>7 DEF DrainStep

LEMMA RunsKeepFiles ==
  ASSUME ServingTypes, FileTypes, InboxInv, ListInv, NEW d \in Drain, DrainStep(d)
  PROVE  (FileTypes /\ InboxInv /\ ListInv)'
<1>0. UNCHANGED <<child, target>>
  BY RunsFiles
<1>1. (FileTypes /\ InboxInv)'
  <2>1. CASE UNCHANGED <<requests, responses, dirs>>
    BY <1>0, <2>1 DEF FileTypes, InboxInv, NobodyWaitsForNothing
  <2>2. ASSUME UNCHANGED dirs, NEW r \in Request,
               requests' = requests \ {r}, responses' = responses \cup {r}
        PROVE  (FileTypes /\ InboxInv)'
    BY <1>0, <2>2 DEF FileTypes, InboxInv, NobodyWaitsForNothing
  <2>3. CASE UNCHANGED <<requests, responses>> /\ dirs' = CleanedUp(drain[d].inbox, requests, responses)
    <3>1. /\ dirs' \in [Id -> SUBSET {"requests", "responses"}]
          /\ \A j \in Id : "requests" \in dirs'[j] =>
               "requests" \in dirs[j] /\ ("responses" \in dirs[j] => "responses" \in dirs'[j])
          /\ \A r \in requests : target[r] \in Id /\ "requests" \in dirs[target[r]] =>
               "requests" \in dirs'[target[r]]
      BY <2>3, CleanupKeeps DEF FileTypes
    <3>2. QED
      BY <1>0, <2>3, <3>1 DEF FileTypes, InboxInv, NobodyWaitsForNothing
  <2>4. QED
    BY <2>1, <2>2, <2>3, RunsFiles
<1>2. ListInv'
  <2>1. /\ \A e \in Drain : e # d => drain'[e] = drain[e]
        /\ \A r \in drain'[d].todo : r \in drain[d].todo /\ drain'[d].inbox = drain[d].inbox
    BY RunsStep DEF Becomes
  <2>2. drain'[d].doing \in {"judged", "asked"} => drain'[d].todo # {} /\ drain'[d].cur = Min(drain'[d].todo)
    <3>1. CASE HasFile(d)
      BY <3>1, RunsStep DEF Becomes, HasFile, NextFile
    <3>2. CASE ~HasFile(d)
      BY <3>2, RunsStep DEF Becomes, ListInv, NextFile
    <3>3. QED
      BY <3>1, <3>2
  <2>3. drain'[d].doing \in {"idle", "next"} => drain'[d].cur = 0
    <3>1. HasFile(d) => drain[d].cur = 0
      BY DEF HasFile, ListInv
    <3>2. QED
      BY <3>1, RunsStep DEF Becomes
  <2>4. QED
    BY <1>0, <2>1, <2>2, <2>3 DEF ListInv, NextFile
<1>3. QED
  BY <1>1, <1>2

LEMMA FilesStep ==
  ServingTypes /\ FileTypes /\ InboxInv /\ ListInv /\ [Next]_vars => (FileTypes /\ InboxInv /\ ListInv)'
<1> SUFFICES ASSUME ServingTypes, FileTypes, InboxInv, ListInv, [Next]_vars
             PROVE  (FileTypes /\ InboxInv /\ ListInv)'
  OBVIOUS
<1>1. CASE UNCHANGED <<child, target, requests, responses, dirs, drain>>
  BY <1>1 DEF FileTypes, InboxInv, ListInv, NobodyWaitsForNothing, NextFile
<1>2. CASE \E r \in Request : ChildStep(r)
  BY <1>2, ChildrenStep
<1>3. CASE \E d \in Drain : DrainStep(d)
  BY <1>3, RunsKeepFiles
<1>4. CASE Tick
  <2>1. UNCHANGED <<child, target, requests, responses>>
    BY <1>4 DEF Tick, childVars
  <2>2. CASE UNCHANGED <<drain, dirs>>
    BY <1>1, <2>1, <2>2
  <2>3. ASSUME NEW d \in Drain, Becomes(d, "next", liveId, Inbox(liveId, requests), 0),
               dirs' = [dirs EXCEPT ![liveId] = @ \cup {"responses"}]
        PROVE  (FileTypes /\ InboxInv /\ ListInv)'
    <3>1. /\ dirs' \in [Id -> SUBSET {"requests", "responses"}]
          /\ \A i \in Id : dirs'[i] = IF i = liveId THEN dirs[i] \cup {"responses"} ELSE dirs[i]
      BY <2>3 DEF FileTypes
    <3>2. FileTypes'
      BY <2>1, <3>1 DEF FileTypes
    <3>3. InboxInv'
      <4>1. \A r \in requests : target[r] \in Id /\ child[r] # "idle" /\ "requests" \in dirs[target[r]]
        BY DEF InboxInv, FileTypes
      <4>2. \A r \in requests' : child'[r] # "idle" /\ "requests" \in dirs'[target'[r]]
        BY <2>1, <3>1, <4>1
      <4>3. \A i \in Id : "requests" \in dirs'[i] => "responses" \in dirs'[i]
        BY <3>1 DEF InboxInv
      <4>4. QED
        BY <2>1, <4>2, <4>3 DEF InboxInv, NobodyWaitsForNothing
    <3>4. \A r \in drain'[d].todo : child[r] # "idle" /\ target[r] = drain'[d].inbox
      BY <2>3 DEF Becomes, Inbox, InboxInv
    <3>5. ListInv'
      BY <2>1, <2>3, <3>4 DEF Becomes, ListInv, NextFile
    <3>6. QED
      BY <3>2, <3>3, <3>5
  <2>4. QED
    BY <1>4, <2>2, <2>3, TickBegins
<1>5. CASE Crash
  <2>1. /\ child' = [r \in Request |-> IF r \in InProcess /\ child[r] = "waiting" THEN "dead" ELSE child[r]]
        /\ UNCHANGED <<target, requests, responses, dirs>> /\ drain' = [d \in Drain |-> IdleDrain]
    BY <1>5 DEF Crash, fileVars
  <2>2. /\ child' \in [Request -> {"idle", "prepared", "waiting", "answered", "abandoned", "dead"}]
        /\ \A r \in Request : /\ child'[r] # "idle" <=> child[r] # "idle"
                             /\ child'[r] = "waiting" => child[r] = "waiting"
    BY <2>1 DEF FileTypes
  <2>3. FileTypes'
    BY <2>1, <2>2 DEF FileTypes
  <2>4. InboxInv'
    BY <2>1, <2>2 DEF FileTypes, InboxInv, NobodyWaitsForNothing
  <2>5. ListInv'
    BY <2>1 DEF ListInv, IdleDrain
  <2>6. QED
    BY <2>3, <2>4, <2>5
<1>6. CASE \/ \E a \in Ask : DialogStepAlone(a)
           \/ \E l \in LocalAsk : RaiseLocal(l) \/ LocalAnswered(l)
           \/ \E i \in Id : StartSession(i) \/ ChangeId(i)
           \/ HeartbeatStale \/ Shutdown \/ UNCHANGED vars
  BY <1>1, <1>6 DEF DialogStepAlone, RaiseLocal, LocalAnswered, StartSession, ChangeId, HeartbeatStale,
     Shutdown, Undisturbed, childVars, fileVars, vars
<1>7. QED
  BY <1>2, <1>3, <1>4, <1>5, <1>6 DEF Next

-----------------------------------------------------------------------------
(* The three parts together. *)

LEMMA ForwardInitially == Init => ForwardInv
<1> SUFFICES ASSUME Init PROVE ForwardInv
  OBVIOUS
<1>1. DialogTypes /\ DialogInv
  BY DEF Init, DialogInit, DialogTypes, DialogInv
<1>2. ServingTypes /\ ServingInv
  BY IdleDrainTyped DEF Init, ServingTypes, ServingInv, OneDrainAtATime, IdleDrain, Drains
<1>3. FileTypes /\ InboxInv
  BY DEF Init, FileTypes, InboxInv, NobodyWaitsForNothing
<1>4. ListInv
  BY DEF Init, ListInv, IdleDrain
<1>5. QED
  BY <1>1, <1>2, <1>3, <1>4 DEF ForwardInv

LEMMA ForwardStep == ForwardInv /\ [Next]_vars => ForwardInv'
<1> SUFFICES ASSUME ForwardInv, [Next]_vars PROVE ForwardInv'
  OBVIOUS
<1>1. (DialogTypes /\ DialogInv)'
  BY DialogMoves, DialogsStep DEF ForwardInv
<1>2. (ServingTypes /\ ServingInv)'
  BY ServingStep DEF ForwardInv
<1>3. (FileTypes /\ InboxInv /\ ListInv)'
  BY FilesStep DEF ForwardInv
<1>4. QED
  BY <1>1, <1>2, <1>3 DEF ForwardInv

(* The inductive invariant holds whoever gives up, stops or dies when.     *)
THEOREM ForwardInvariant == Spec => []ForwardInv
<1>1. QED
  BY ForwardInitially, ForwardStep, PTL DEF Spec

(* At most one dialog that the session waits for is on the screen, and it  *)
(* is the turn of its ask (ask-dialog-queue.ts:38-40).                     *)
THEOREM DialogsNeverOverlap == Spec => []DialogsDoNotOverlap
<1>1. ForwardInv => DialogsDoNotOverlap
  BY DEF ForwardInv, DialogInv, DialogsDoNotOverlap, Live, MyTurn
<1>2. QED
  BY <1>1, ForwardInvariant, PTL

(* No child waits without a request in the inbox or an answer written for  *)
(* it, although both sides delete files and directories.                   *)
THEOREM NobodyEverWaitsForNothing == Spec => []NobodyWaitsForNothing
<1>1. ForwardInv => NobodyWaitsForNothing
  BY DEF ForwardInv, InboxInv
<1>2. QED
  BY <1>1, ForwardInvariant, PTL

(* One request at a time is served until a run of processInbox outlives    *)
(* its session (forwarding-manager.ts:81-86).                              *)
THEOREM OneDrainAlways == Spec => []OneDrainAtATime
<1>1. ForwardInv => OneDrainAtATime
  BY DEF ForwardInv, ServingInv
<1>2. QED
  BY <1>1, ForwardInvariant, PTL

(* A decision about a child that still waits is written where the child    *)
(* looks, whatever cleanups have run since the drain began                 *)
(* (forwarded-request-server.ts:259-270).                                  *)
THEOREM RulingAlwaysReachesChild == Spec => RulingReachesChild
<1> DEFINE Reaches == \A d \in Drain : LET r == drain[d].cur IN
             (r # 0 /\ drain'[d].cur = 0 /\ up' /\ child[r] = "waiting") => r \in responses'
<1>1. ForwardInv /\ [Next]_vars => Reaches
  <2> SUFFICES ASSUME ForwardInv, [Next]_vars, NEW d \in Drain, drain[d].cur # 0, drain'[d].cur = 0,
                      up', child[drain[d].cur] = "waiting"
               PROVE  drain[d].cur \in responses'
    OBVIOUS
  <2> DEFINE r == drain[d].cur
  <2>1. /\ drain[d] \in Drains /\ drain[d].doing \in {"judged", "asked"}
        /\ drain[d].todo # {} /\ drain[d].todo \subseteq Request /\ r = Min(drain[d].todo)
    BY DEF ForwardInv, ListInv, ServingTypes, Drains, NextFile
  <2>2. r \in drain[d].todo /\ r \in Request
    BY <2>1, LeastRequest
  <2>3. target[r] = drain[d].inbox /\ r \in requests \cup responses
    BY <2>2 DEF ForwardInv, ListInv, InboxInv, NobodyWaitsForNothing
  <2>4. r \in requests => "responses" \in dirs[drain[d].inbox]
    BY <2>2, <2>3 DEF ForwardInv, InboxInv
  <2> HIDE DEF r
  <2>5. drain' # drain
    BY DEF r
  <2>6. CASE \E v : Respond(d, r, v)
    BY <2>3, <2>4, <2>6 DEF Respond, r
  <2>7. CASE DrainStep(d)
    <3>1. LinkDecides(d) \/ DialogAnswered(d) \/ LinkDefers(d)
      BY <2>1, <2>7 DEF DrainStep, SkipUnusable, RuledByPolicy, Escalate, EndDrain, HasFile
    <3>2. CASE LinkDecides(d) \/ DialogAnswered(d)
      BY <2>6, <3>2 DEF LinkDecides, DialogAnswered, r
    <3>3. CASE LinkDefers(d)
      <4>1. drain'[d].cur = drain[d].cur
        BY <2>1, <3>3 DEF LinkDefers, ForwardInv, ServingTypes, Drains
      <4>2. QED
        BY <4>1
    <3>4. QED
      BY <3>1, <3>2, <3>3
  <2>8. ASSUME NEW e \in Drain, e # d, DrainStep(e) PROVE FALSE
    <3>1. drain'[d] = drain[d]
      BY <2>8, RunsStep DEF Becomes, ForwardInv
    <3>2. QED
      BY <3>1
  <2>9. CASE Tick
    <3>1. \A e \in Drain : drain[e].doing = "idle" => e # d
      BY <2>1
    <3>2. drain'[d] = drain[d]
      BY <2>5, <2>9, <3>1, TickBegins DEF Becomes, ForwardInv
    <3>3. QED
      BY <3>2
  <2>10. CASE \E q \in Request : ChildStep(q)
    BY <2>5, <2>10 DEF ChildStep, Forward, WriteRequest, ReadResponse, CheckLiveness, TimeOut, ChildDies
  <2>11. CASE \/ \E a \in Ask : DialogStepAlone(a)
              \/ \E l \in LocalAsk : RaiseLocal(l) \/ LocalAnswered(l)
              \/ \E i \in Id : StartSession(i) \/ ChangeId(i)
              \/ HeartbeatStale \/ Shutdown \/ UNCHANGED vars
    BY <2>5, <2>11 DEF DialogStepAlone, RaiseLocal, LocalAnswered, StartSession, ChangeId, HeartbeatStale,
       Shutdown, vars
  <2>12. CASE Crash
    BY <2>12 DEF Crash
  <2>13. QED
    BY <2>7, <2>8, <2>9, <2>10, <2>11, <2>12 DEF Next
<1>2. QED
  BY <1>1, ForwardInvariant, PTL DEF Spec, RulingReachesChild

(* A run of processInbox begins on the one id that is announced            *)
(* (forwarding-manager.ts:128-137).                                        *)
THEOREM AnnouncedIsAlwaysDrained == Spec => AnnouncedIsDrained
<1> DEFINE Drained == \A d \in Drain :
             (drain[d].doing = "idle" /\ drain'[d].doing # "idle") => marks' = {drain'[d].inbox}
<1>1. ForwardInv /\ [Next]_vars => Drained
  <2> SUFFICES ASSUME ForwardInv, [Next]_vars, NEW d \in Drain,
                      drain[d].doing = "idle", drain'[d].doing # "idle"
               PROVE  marks' = {drain'[d].inbox}
    OBVIOUS
  <2>1. drain' # drain
    OBVIOUS
  <2>2. CASE Tick
    <3>1. marks' = {liveId}
      BY <2>2, TickBegins, AnnouncedAlone DEF ForwardInv, ServingTypes
    <3>2. drain'[d].inbox = liveId
      BY <2>1, <2>2, TickBegins DEF ForwardInv, Becomes
    <3>3. QED
      BY <3>1, <3>2
  <2>3. ASSUME NEW e \in Drain, DrainStep(e) PROVE FALSE
    <3>1. drain[e].doing # "idle" /\ \A f \in Drain : f # e => drain'[f] = drain[f]
      BY <2>3, RunsStep DEF Becomes, HasFile, ForwardInv
    <3>2. QED
      BY <3>1
  <2>4. CASE \E q \in Request : ChildStep(q)
    BY <2>1, <2>4 DEF ChildStep, Forward, WriteRequest, ReadResponse, CheckLiveness, TimeOut, ChildDies
  <2>5. CASE \/ \E a \in Ask : DialogStepAlone(a)
             \/ \E l \in LocalAsk : RaiseLocal(l) \/ LocalAnswered(l)
             \/ \E i \in Id : StartSession(i) \/ ChangeId(i)
             \/ HeartbeatStale \/ Shutdown \/ UNCHANGED vars
    BY <2>1, <2>5 DEF DialogStepAlone, RaiseLocal, LocalAnswered, StartSession, ChangeId, HeartbeatStale,
       Shutdown, vars
  <2>6. CASE Crash
    BY <2>6 DEF Crash, IdleDrain
  <2>7. QED
    BY <2>2, <2>3, <2>4, <2>5, <2>6 DEF Next
<1>2. QED
  BY <1>1, ForwardInvariant, PTL DEF Spec, AnnouncedIsDrained
=============================================================================
