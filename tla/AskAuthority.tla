---------------------------- MODULE AskAuthority ----------------------------
(* Who decides a permission request: the authority a session selects, the     *)
(* links its settings name, the model judge among them, and the human at the  *)
(* end, answering with the keys the settings gave.  One request at a time;     *)
(* how dialogs queue and how requests travel to a parent are in AskDialogs     *)
(* and PermissionForwarding.                                                   *)
EXTENDS SettingsStore, PermissionPrompt, ModelJudge

CONSTANTS Contexts,         \* what a session may be: [ui, tui, child]
          Asks,             \* requests: [tool, values, direction, forwarded, licensed]
          JudgeFiles,       \* <<global, project>> files of the judge
          Known,            \* models the registry resolves
          Keyboard,         \* what may be pressed
          MaxAsks,          \* bound: requests
          MaxSessions,      \* bound: sessions, one after the other
          MaxRelays         \* bound: sessions an answer comes through

VARIABLES session,          \* [on, number, started, judged, turned, context]
          authority,        \* "none", "local", "relay", "denying"
          parentServes,     \* external: the parent drains its inbox
          announced,        \* "ready" was repeated in this session
          links,            \* the registered links
          judgeFiles,
          judge,            \* the configuration the judge loaded
          ask,
          dialog,           \* the dialog on the screen
          asked             \* requests so far

nodeVars == <<session, authority, parentServes, announced, links, judgeFiles, judge>>
askVars == <<ask, dialog, asked>>
vars == <<settingsVars, nodeVars, askVars>>

-----------------------------------------------------------------------------
(* Who decided: a leaf, behind the sessions the answer was forwarded through. *)

MaxDecisionSourceDepth == 4
Source(leaf, hops) == [leaf |-> leaf, hops |-> hops]
Nobody == Source("nobody", 0)
Unnamed == "unnamed"        \* a forwarded answer whose decider is not known

\* What is read of a source another process wrote: nothing, if it nests too deep.
AsDecisionSource(source) == IF source.hops <= MaxDecisionSourceDepth THEN source ELSE Source(Unnamed, 0)
\* A session that receives an answer wraps what it could read.
Forwarded(source) == Source(AsDecisionSource(source).leaf, AsDecisionSource(source).hops + 1)
AfterRelays(leaf, n) ==
  LET after[k \in 0..n] == IF k = 0 THEN Source(leaf, 0) ELSE Forwarded(after[k - 1]) IN after[n]

-----------------------------------------------------------------------------
(* The node. *)

ModelJudgeLink == "model-judge"
NoAsk == [stage |-> "idle", request |-> CHOOSE r \in Asks : TRUE, chain |-> {}, consulted |-> {},
          config |-> NoJudge, ready |-> FALSE, named |-> FALSE, aborted |-> FALSE, review |-> "none",
          decision |-> Undecided, by |-> Nobody]
NoDialog == [shown |-> "none", view |-> [doublePress |-> TRUE, keys |-> DefaultKeys, width |-> FALSE,
                                         scope |-> FALSE],
             state |-> InitialPromptState, text |-> "blank", clock |-> "none", choice |-> "none",
             touched |-> FALSE, last |-> "none", repeated |-> FALSE]
Off == [on |-> FALSE, number |-> 0, started |-> FALSE, judged |-> FALSE, turned |-> FALSE,
        context |-> CHOOSE c \in Contexts : TRUE]

Init ==
  /\ SettingsInit
  /\ session = Off /\ authority = "none" /\ parentServes = FALSE
  /\ announced = FALSE /\ links = {} /\ judgeFiles \in JudgeFiles /\ judge = NoJudge
  /\ ask = NoAsk /\ dialog = NoDialog /\ asked = 0

\* A session with a user asks its user, unless it is a child whose parent
\* serves it; a session without one asks its parent or denies.
Select(context) ==
  IF context.ui THEN IF context.child /\ parentServes THEN "relay" ELSE "local"
  ELSE IF context.child THEN "relay" ELSE "denying"
AdjudicatesLocally == authority # "relay"

\* "ready" makes the judge register, if it has its configuration by then.
Ready(config) == IF config.loaded THEN links \cup {ModelJudgeLink} ELSE links

BeginSession ==
  /\ ~session.on /\ session.number < MaxSessions
  /\ \E context \in Contexts :
       /\ session' = [Off EXCEPT !.on = TRUE, !.number = session.number + 1, !.context = context]
       /\ parentServes' \in IF context.child THEN BOOLEAN ELSE {FALSE}
  /\ UNCHANGED <<settingsVars, authority, announced, links, judgeFiles, judge, askVars>>

\* The two extensions handle the session's start in either order.
HandleSessionStart ==
  /\ session.on /\ ~session.started
  /\ session' = [session EXCEPT !.started = TRUE]
  /\ policyTrusted' = trusted
  /\ authority' = Select(session.context)
  /\ Refreshed
  /\ announced' = FALSE
  /\ links' = Ready(judge)
  /\ UNCHANGED <<files, trusted, modal, edits, parentServes, judgeFiles, judge, askVars>>
JudgeSessionStart ==
  /\ session.on /\ ~session.judged
  /\ session' = [session EXCEPT !.judged = TRUE]
  /\ judge' = LoadModelJudgeConfig(judgeFiles[1], judgeFiles[2], trusted)
  /\ UNCHANGED <<settingsVars, authority, parentServes, announced, links, judgeFiles, askVars>>

\* As if only the "ready" of a session's start reached the extensions.
PrepareSilently ==
  /\ session.on /\ session.started /\ session.judged /\ ask.stage = "idle"
  /\ session' = [session EXCEPT !.turned = TRUE]
  /\ authority' = Select(session.context)
  /\ Refreshed
  /\ announced' = TRUE
  /\ UNCHANGED <<files, trusted, policyTrusted, modal, edits, links, parentServes, judgeFiles, judge, askVars>>

\* Before a turn: the authority and the settings again, and "ready" once more.
Prepare ==
  /\ session.on /\ session.started /\ session.judged /\ ask.stage = "idle"
  /\ session' = [session EXCEPT !.turned = TRUE]
  /\ authority' = Select(session.context)
  /\ Refreshed
  /\ announced' = TRUE
  /\ links' = IF announced THEN links ELSE Ready(judge)
  /\ UNCHANGED <<files, trusted, policyTrusted, modal, edits, parentServes, judgeFiles, judge, askVars>>

HandleResourcesDiscover ==
  /\ session.on /\ session.started /\ ask.stage = "idle"
  /\ policyTrusted' = trusted
  /\ UNCHANGED <<files, trusted, current, declared, issues, modal, edits, twin, nodeVars, askVars>>

\* No request outlives its session.
HandleSessionShutdown ==
  /\ session.on /\ session.started /\ session.judged /\ ask.stage = "idle"
  /\ session' = [Off EXCEPT !.number = session.number]
  /\ authority' = "none" /\ links' = links \ {ModelJudgeLink} /\ judge' = NoJudge
  /\ UNCHANGED <<settingsVars, parentServes, announced, judgeFiles, askVars>>

ParentChanges ==
  /\ session.on /\ session.context.child
  /\ Edited
  /\ parentServes' = ~parentServes
  /\ UNCHANGED <<files, trusted, policyTrusted, current, declared, issues, modal, twin>>
  /\ UNCHANGED <<session, authority, announced, links, judgeFiles, judge, askVars>>
RegisterLink ==
  /\ session.turned /\ ask.stage = "idle" /\ "other" \notin links
  /\ links' = links \cup {"other"}
  /\ UNCHANGED <<settingsVars, session, authority, parentServes, announced, judgeFiles, judge, askVars>>

-----------------------------------------------------------------------------
(* A request. *)

\* The surface a gate gives a path outside the working directory.
SurfaceOf(tool) ==
  CASE tool = "read" -> <<"external_directory", "_read">>
    [] tool = "write" -> <<"external_directory", "_write">>
    [] tool = "edit" -> <<"external_directory">>
    [] OTHER -> <<"tool">>
Reviewable(request) == [surface |-> SurfaceOf(request.tool), values |-> request.values]

ChainSettings == IF "authorizerChain" \in DOMAIN current
                 THEN LET names == current["authorizerChain"][2]
                      IN  [i \in DOMAIN names |-> names[i][2]]
                 ELSE <<>>
\* The links that are configured and registered, with their places in the
\* settings; none where the parent decides.
LinksFor ==
  LET registered == {i \in DOMAIN ChainSettings : ChainSettings[i] \in links}
  IN  IF AdjudicatesLocally THEN {<<i, ChainSettings[i]>> : i \in registered} ELSE {}

Escalate(request) ==
  /\ session.turned /\ ask.stage = "idle" /\ asked < MaxAsks
  /\ asked' = asked + 1
  /\ UNCHANGED dialog
  /\ ask' = [NoAsk EXCEPT !.stage = "links", !.request = request, !.chain = LinksFor,
                          !.ready = judge.loaded,
                          !.named = AdjudicatesLocally /\ ModelJudgeLink \in ToSet(ChainSettings)]
  /\ UNCHANGED <<settingsVars, nodeVars>>

Answer(decision, by) == [ask EXCEPT !.stage = "done", !.decision = decision, !.by = by]
Link == ask.stage = "links" /\ ask.chain # {}
FirstLink == CHOOSE link \in ask.chain : \A other \in ask.chain : link[1] <= other[1]
NextLink(consulted) == [ask EXCEPT !.stage = "links", !.chain = ask.chain \ {FirstLink},
                                   !.consulted = ask.consulted \cup {consulted}]
UnchangedBut == UNCHANGED <<settingsVars, nodeVars, asked>>

\* A link may not allow what is outside, unless nothing there is on disk.
IsExcludedSurface(request) == SurfaceOf(request.tool)[1] \in {"external_directory", "path"}
EncloseInDelegationEnvelope(verdict, request) ==
  IF verdict = "allow" /\ IsExcludedSurface(request) /\ ~request.licensed THEN Defer ELSE verdict

DecideFromVerdict(name, verdict) ==
  IF verdict = "allow" THEN Answer(Decision(TRUE, "approved", "proven"), Source(name, 0))
  ELSE Answer(Denied, Source(name, 0))

OtherLink ==
  /\ Link /\ FirstLink[2] # ModelJudgeLink
  /\ \E verdict \in {"allow", "deny", Defer} :
       LET enclosed == EncloseInDelegationEnvelope(verdict, ask.request)
       IN  ask' = IF enclosed = Defer THEN NextLink("other") ELSE DecideFromVerdict("other", enclosed)
  /\ UNCHANGED dialog /\ UnchangedBut
\* A link that throws fails the gate.
LinkThrows ==
  /\ \/ Link /\ FirstLink[2] # ModelJudgeLink
     \/ ask.stage = "auth"
  /\ ask' = Answer(Denied, Source("gate_error", 0))
  /\ UNCHANGED dialog /\ UnchangedBut

\* The judge defers at once what is not its to review, or has no model for.
JudgeDefers ==
  /\ Link /\ FirstLink[2] = ModelJudgeLink
  /\ ~TakesUp(judge, Reviewable(ask.request)) \/ judge.model \notin Known
  /\ ask' = [NextLink(ModelJudgeLink) EXCEPT
               !.config = judge,
               !.review = IF TakesUp(judge, Reviewable(ask.request)) THEN "unresolved" ELSE "none"]
  /\ UNCHANGED dialog /\ UnchangedBut
JudgeAsksForKey ==
  /\ Link /\ FirstLink[2] = ModelJudgeLink
  /\ TakesUp(judge, Reviewable(ask.request)) /\ judge.model \in Known
  /\ ask' = [ask EXCEPT !.stage = "auth", !.config = judge]
  /\ UNCHANGED dialog /\ UnchangedBut
\* The key is waited for without a limit; the model's reply is not.
JudgeAuth ==
  /\ ask.stage = "auth"
  /\ \/ ask' = [ask EXCEPT !.stage = "model", !.review = "asked"]
     \/ ask' = [NextLink(ModelJudgeLink) EXCEPT !.review = "unauthorized"]
  /\ UNCHANGED dialog /\ UnchangedBut
JudgeTimesOut ==
  /\ ask.stage = "model" /\ ~ask.aborted
  /\ ask' = [ask EXCEPT !.aborted = TRUE]
  /\ UNCHANGED dialog /\ UnchangedBut
\* Also after the timer, when the call does not heed the abort.
JudgeReplies ==
  /\ ask.stage = "model"
  /\ \E reply \in Replies :
       ask' = IF ReviewOutcome(reply) = Defer THEN NextLink(ModelJudgeLink)
              ELSE [DecideFromVerdict(ModelJudgeLink, "deny") EXCEPT
                      !.consulted = ask.consulted \cup {ModelJudgeLink},
                      !.decision = DeniedWithReason]
  /\ UNCHANGED dialog /\ UnchangedBut

\* The end of the chain: the parent, nobody, or the human.
Terminal == ask.stage = "links" /\ ask.chain = {}
Relay ==
  /\ Terminal /\ authority = "relay"
  /\ \E n \in 0..MaxRelays, decision \in {Decision(TRUE, "approved", "proven"), Denied} :
       ask' = Answer(decision, Forwarded(AfterRelays("user", n)))
  /\ UNCHANGED dialog /\ UnchangedBut
Deny ==
  /\ Terminal /\ authority = "denying"
  /\ ask' = Answer(Denied, Source("unavailable", 0))
  /\ UNCHANGED dialog /\ UnchangedBut

\* The settings are read when the dialog is presented, and its clock set.
Present ==
  /\ Terminal /\ authority = "local"
  /\ ask' = [ask EXCEPT !.stage = "dialog"]
  /\ dialog' = [NoDialog EXCEPT
       !.shown = IF session.context.tui THEN "inline" ELSE "menu",
       !.view = [doublePress |-> IsOn(current, "doublePressToConfirm"),
                 keys |-> ResolveDialogKeys(current).keys,
                 width |-> ask.request.direction # "none",
                 scope |-> ask.request.forwarded],
       !.clock = IF "promptTimeoutMs" \in DOMAIN current THEN "ticking" ELSE "none"]
  /\ UnchangedBut

Inline == ask.stage = "dialog" /\ dialog.shown = "inline"
\* A key that moves, confirms, leaves or names a decision.
IsAnswering(key) == key \in NamedKeys \/ BoundTo(dialog.view, key) # {}
Engaged == IF dialog.clock = "ticking" THEN "stopped" ELSE dialog.clock

PressKey(key) ==
  /\ Inline
  /\ LET outcome == HandleInput(dialog.view, dialog.state, dialog.text, key)
         entering == outcome.state.step = "reason" /\ dialog.state.step # "reason"
         decided == outcome.decision # Undecided
     IN  /\ dialog' = [dialog EXCEPT
              !.state = outcome.state, !.clock = Engaged, !.touched = TRUE,
              !.text = IF entering THEN "blank"
                       ELSE IF dialog.state.step = "reason" THEN Typed(key, dialog.text) ELSE dialog.text,
              !.repeated = IF IsAnswering(key) THEN key = dialog.last ELSE dialog.repeated,
              !.last = IF IsAnswering(key) THEN key ELSE dialog.last]
         /\ ask' = IF decided THEN Answer(outcome.decision, Source("user", 0)) ELSE ask
  /\ UnchangedBut

\* The clock stops at the first sign of a human, but nothing of a menu shows.
AnswerExpires ==
  /\ ask.stage = "dialog" /\ dialog.clock = "ticking"
  /\ ask' = Answer(Denied, Source("unanswered", 0))
  /\ dialog' = [dialog EXCEPT !.clock = "expired"]
  /\ UnchangedBut

Offered(view) == {a \in ActionSet : IsVisible(view, a)} \cup {"dismissed"}
Choose(choice) ==
  /\ ask.stage = "dialog" /\ dialog.shown = "menu"
  /\ choice \in Offered(dialog.view)
  /\ dialog' = [dialog EXCEPT !.shown = NextMenu(dialog.view, choice), !.choice = choice]
  /\ ask' = IF NextMenu(dialog.view, choice) # "none" THEN ask
            ELSE Answer(MenuDecision(dialog.view, choice, "none", "none"), Source("user", 0))
  /\ UnchangedBut
ChooseScope ==
  /\ ask.stage = "dialog" /\ dialog.shown = "scope"
  /\ \E scope \in {"subagent", "serving", "dismissed"} :
       ask' = Answer(MenuDecision(dialog.view, dialog.choice, scope, "none"), Source("user", 0))
  /\ UNCHANGED dialog /\ UnchangedBut
GiveReason ==
  /\ ask.stage = "dialog" /\ dialog.shown = "reason"
  /\ \E reason \in {"typed", "blank"} :
       ask' = Answer(MenuDecision(dialog.view, dialog.choice, "none", reason), Source("user", 0))
  /\ UNCHANGED dialog /\ UnchangedBut

\* The gate takes the decision, and the turn goes on.
Return ==
  /\ ask.stage = "done"
  /\ ask' = NoAsk /\ dialog' = NoDialog
  /\ UnchangedBut

\* A request captured what it needs: an edit during one is an edit after it, and
\* so is a link that registers.
Settings ==
  /\ \/ \E layer \in AllLayers : EditFile(layer)
     \/ TrustProject
     \/ OpenSettingsModal
     \/ CloseSettingsModal
     \/ \E key \in Flags, value \in BOOLEAN : ApplySetting(key, value)
     \/ ResetSettings
  /\ ask.stage = "idle"
  /\ UNCHANGED <<nodeVars, askVars>>

Next ==
  \/ Settings
  \/ BeginSession \/ HandleSessionStart \/ JudgeSessionStart \/ Prepare
  \/ HandleResourcesDiscover \/ HandleSessionShutdown \/ ParentChanges \/ RegisterLink
  \/ \E request \in Asks : Escalate(request)
  \/ OtherLink \/ LinkThrows
  \/ JudgeDefers \/ JudgeAsksForKey \/ JudgeAuth \/ JudgeTimesOut \/ JudgeReplies
  \/ Relay \/ Deny \/ Present
  \/ \E key \in Keyboard : PressKey(key)
  \/ AnswerExpires
  \/ \E choice \in ActionSet \cup {"dismissed"} : Choose(choice)
  \/ ChooseScope \/ GiveReason \/ Return

Spec == Init /\ [][Next]_vars

-----------------------------------------------------------------------------
(* Properties. *)

\* With double press on, nothing is approved in the inline dialog by one stray
\* key: the last key was enter, or the same key was pressed twice with no
\* other key that counts between.
NoStrayKeyApproves ==
  (/\ ask.stage = "done" /\ dialog.shown = "inline" /\ ask.by = Source("user", 0)
   /\ ask.decision.approved /\ dialog.view.doublePress)
    => dialog.last = "enter" \/ dialog.repeated

\* A human who has begun to answer in the inline dialog is not cut off by its
\* clock, whatever key that was; and an expired request is never approved.
EngagedHumanDecides ==
  ask.by.leaf = "unanswered" => ~dialog.touched /\ ~ask.decision.approved

\* In whichever order the two extensions start, a judge that has a configuration
\* and is named in the settings is consulted by every request that gets as far as
\* the human.
JudgeIsHeard ==
  ask.stage = "dialog" /\ ask.named /\ ask.ready => ModelJudgeLink \in ask.consulted

\* README of the judge: a path that matches a typo pattern is put to the model
\* whichever of the file tools names it.
TyposAreReviewed ==
  ask.stage = "dialog" /\ ModelJudgeLink \in ask.consulted /\ ask.config.loaded
    /\ ask.request.tool \in {"read", "edit", "write"}
    /\ MatchedCandidates(ask.config, ask.request.values) # <<>>
    => ask.review # "none"
=============================================================================
