----------------------------- MODULE TurnBudget -----------------------------
(***************************************************************************)
(* The turn budget of a child's run: lifecycle/turn-limits.ts.             *)
(***************************************************************************)
EXTENDS Integers

Absent == -1            \* a limit nobody set, or an unlimited run
MinMaxTurns == 2
DefaultWrapUpTurns == 2

Larger(m, n) == IF m >= n THEN m ELSE n

(* a ?? b *)
OrElse(a, b) == IF a = Absent THEN b ELSE a

(* 0 and an absent limit are unlimited; a real one leaves a turn to work   *)
(* and one to answer.                                                      *)
NormalizeMaxTurns(n) ==
  IF n \in {Absent, 0} THEN Absent ELSE Larger(MinMaxTurns, n)

(* resolveTurnLimits(): the call, then the agent, then the default.        *)
ResolveTurnLimits(request, configured, default, wrapUp) ==
  [maxTurns  |-> NormalizeMaxTurns(OrElse(OrElse(request, configured), default)),
   wrapUpTurns |-> OrElse(wrapUp, DefaultWrapUpTurns)]

-----------------------------------------------------------------------------
(* TurnBudgetTracker: a fresh one for each run of a session.               *)
Tracker(limits) ==
  [maxTurns |-> limits.maxTurns,
   warnAt   |-> IF limits.maxTurns = Absent THEN Absent
                ELSE Larger(0, limits.maxTurns - limits.wrapUpTurns),
   used     |-> 0,
   phase    |-> "within"]

Remaining(t) == t.maxTurns - t.used

WarnsBeforeFirstTurn(t) == t.warnAt = 0 /\ t.phase = "within"

Opened(t) == IF WarnsBeforeFirstTurn(t) THEN [t EXCEPT !.phase = "warned"] ELSE t

(* What the budget asks for as a turn ends: a stop goes before a warning,  *)
(* and neither follows a turn after which the run ends on its own.         *)
ActionAtEnd(t, failed, ranTools) ==
  LET used == t.used + 1 IN
  IF failed \/ t.maxTurns = Absent \/ ~ranTools THEN "none"
  ELSE IF used >= t.maxTurns THEN "stop"
  ELSE IF t.phase = "within" /\ used >= t.warnAt THEN "warn"
  ELSE "none"

PhaseAfter(action, phase) ==
  CASE action = "stop" -> "exhausted" [] action = "warn" -> "warned" [] OTHER -> phase

(* onTurnEnd: a turn that failed spends nothing.                           *)
OnTurnEnd(t, failed, ranTools) ==
  IF failed THEN t
  ELSE [t EXCEPT !.used = @ + 1, !.phase = PhaseAfter(ActionAtEnd(t, failed, ranTools), @)]

(* (A bug: there is no backstop.)                                          *)
NeverStops(t) == FALSE

(* onTurnStart: the backstop for a turn a steer forced past the ceiling.   *)
StopsAtStart(t) ==
  t.maxTurns # Absent /\ t.phase # "exhausted" /\ t.used >= t.maxTurns

OnTurnStart(t) == IF StopsAtStart(t) THEN [t EXCEPT !.phase = "exhausted"] ELSE t
=============================================================================
