-------------------------- MODULE PermissionPrompt --------------------------
(* The dialog a human answers a permission request in: the inline one of a    *)
(* terminal, a reducer of key presses, and the two menus and the editor that  *)
(* stand in for it elsewhere.                                                 *)
(*                                                                            *)
(* A view is what one presentation captured: [doublePress, keys, width,       *)
(* scope], "width" saying that both directions are offered and "scope" that   *)
(* the request came from another session.                                     *)
EXTENDS Integers, Sequences, SequencesExt, PermissionConfig

Undecided == [approved |-> FALSE, state |-> "none", width |-> "proven"]
Decision(approved, state, width) == [approved |-> approved, state |-> state, width |-> width]
Denied == Decision(FALSE, "denied", "proven")
DeniedWithReason == Decision(FALSE, "denied_with_reason", "proven")
SessionDecision(state, width) == Decision(TRUE, state, width)

IsVisible(view, action) == action \in ActionSet /\ (view.width \/ action # "approveSessionBoth")
VisibleActions(view) == LET Shown(a) == IsVisible(view, a) IN SelectSeq(Actions, Shown)

NotArmed == "none"
InitialPromptState ==
  [step |-> "decision", at |-> "approve", armed |-> NotArmed, error |-> FALSE,
   serving |-> FALSE, width |-> "proven"]
\* The outcome of an event: another state to show, or a decision.
Shows(state) == [state |-> state, decision |-> Undecided]
Decides(state, decision) == [state |-> state, decision |-> decision]

ShiftAction(view, action, direction) ==
  LET shown == VisibleActions(view)
      n == Len(shown)
      i == CHOOSE k \in 1..n : shown[k] = action
  IN  shown[((i - 1 + (IF direction = "down" THEN 1 ELSE n - 1)) % n) + 1]

Commit(view, state, action) ==
  CASE action = "approve" -> Decides(state, Decision(TRUE, "approved", "proven"))
    [] action = "deny" -> Decides(state, Denied)
    [] action = "denyWithReason" ->
         Shows([state EXCEPT !.step = "reason", !.at = action, !.armed = NotArmed, !.error = FALSE])
    [] OTHER ->
         LET width == IF action = "approveSessionBoth" THEN "family" ELSE "proven"
         IN  IF view.scope
             THEN Shows([state EXCEPT !.step = "scope", !.at = action, !.armed = NotArmed,
                                      !.serving = FALSE, !.width = width])
             ELSE Decides(state, SessionDecision("approved_for_session", width))

PressHotkey(view, state, action) ==
  IF ~view.doublePress \/ state.armed = action THEN Commit(view, state, action)
  ELSE Shows([state EXCEPT !.at = action, !.armed = action])

\* As if moving the highlight left a decision armed.
NavigateArmed(view, state, direction) ==
  Shows([state EXCEPT !.at = ShiftAction(view, state.at, direction)])
Navigate(view, state, direction) ==
  Shows([state EXCEPT !.at = ShiftAction(view, state.at, direction), !.armed = NotArmed])

ReduceDecisionStep(view, state, event) ==
  CASE event.type = "nav" -> Navigate(view, state, event.direction)
    [] event.type = "hotkey" ->
         IF IsVisible(view, event.action) THEN PressHotkey(view, state, event.action) ELSE Shows(state)
    [] event.type = "confirm" -> Commit(view, state, state.at)
    [] event.type = "cancel" -> Decides(state, Denied)
    [] OTHER -> Shows(state)

Back(state) ==
  [state EXCEPT !.step = "decision", !.armed = NotArmed, !.error = FALSE, !.width = "proven"]

\* An empty reason is refused and the editor stays.
ReduceReasonStep(state, event) ==
  CASE event.type = "cancel" -> Shows(Back(state))
    [] event.type = "submitReason" ->
         IF event.blank THEN Shows([state EXCEPT !.error = TRUE]) ELSE Decides(state, DeniedWithReason)
    [] OTHER -> Shows(state)

ReduceScopeStep(state, event) ==
  CASE event.type = "nav" -> Shows([state EXCEPT !.serving = event.direction = "down"])
    [] event.type = "confirm" ->
         Decides(state, SessionDecision(IF state.serving THEN "approved_for_serving_session"
                                                         ELSE "approved_for_session", state.width))
    [] event.type = "cancel" -> Shows(Back(state))
    [] OTHER -> Shows(state)

ReducePrompt(view, state, event) ==
  CASE state.step = "decision" -> ReduceDecisionStep(view, state, event)
    [] state.step = "reason" -> ReduceReasonStep(state, event)
    [] OTHER -> ReduceScopeStep(state, event)

-----------------------------------------------------------------------------
(* Keys. *)

Nothing == [type |-> "nothing"]
BoundTo(view, key) == {a \in ActionSet : IsVisible(view, a) /\ view.keys[a] = key}
FirstOf(actions) == Actions[Min({i \in DOMAIN Actions : Actions[i] \in actions})]
NamedKeys == {"up", "k", "down", "j", "enter", "escape"}
ToEvent(view, state, key) ==
  CASE key \in {"up", "k"} -> [type |-> "nav", direction |-> "up"]
    [] key \in {"down", "j"} -> [type |-> "nav", direction |-> "down"]
    [] key = "enter" -> [type |-> "confirm"]
    [] key = "escape" -> [type |-> "cancel"]
    [] key \notin NamedKeys /\ state.step = "decision" /\ BoundTo(view, key) # {} ->
         [type |-> "hotkey", action |-> FirstOf(BoundTo(view, key))]
    [] OTHER -> Nothing
\* The editor of the reason takes every key but two; "text" is what it holds.
ToReasonEvent(key, text) ==
  CASE key = "enter" -> [type |-> "submitReason", blank |-> text = "blank"]
    [] key = "escape" -> [type |-> "cancel"]
    [] OTHER -> Nothing
Typed(key, text) == IF key \in {"enter", "escape", "up", "down", "ctrl+o"} THEN text ELSE "typed"

\* The application's own key only changes how much of the request is shown.
HandleInput(view, state, text, key) ==
  IF state.step = "reason" THEN ReducePrompt(view, state, ToReasonEvent(key, text))
  ELSE IF key = "ctrl+o" THEN Shows(state)
  ELSE ReducePrompt(view, state, ToEvent(view, state, key))

-----------------------------------------------------------------------------
(* The menus: a choice is one of the actions, or "dismissed".  Leaving the     *)
(* first menu denies, leaving the second grants the lesser scope.              *)

MenuDecision(view, choice, scopeChoice, reason) ==
  CASE choice = "approve" -> Decision(TRUE, "approved", "proven")
    [] choice \in {"approveSession", "approveSessionBoth"} ->
         SessionDecision(IF view.scope /\ scopeChoice = "serving" THEN "approved_for_serving_session"
                                                                  ELSE "approved_for_session",
                         IF choice = "approveSessionBoth" THEN "family" ELSE "proven")
    [] choice = "denyWithReason" /\ reason = "typed" -> DeniedWithReason
    [] OTHER -> Denied
\* The menus and the editor that a choice opens after the first.
NextMenu(view, choice) ==
  CASE choice \in {"approveSession", "approveSessionBoth"} /\ view.scope -> "scope"
    [] choice = "denyWithReason" -> "reason"
    [] OTHER -> "none"
=============================================================================
