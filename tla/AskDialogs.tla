----------------------------- MODULE AskDialogs -----------------------------
(***************************************************************************)
(* How one session puts its permission asks before its human               *)
(* (pi-permission-system/src/authority: ask-dialog-queue.ts,               *)
(* answer-window.ts, local-user-authorizer.ts and the surfaces of          *)
(* permission-prompt-component.ts).                                        *)
(*                                                                         *)
(* The host has one slot for a dialog and the session raises asks from two *)
(* tasks, its own gate and the inbox of forwarded requests, so they wait   *)
(* for one another on a chain of promises.  A shown dialog runs an answer  *)
(* window; the end of the session releases every ask that is still owed an *)
(* answer and leaves the dialog it cannot close on the screen.             *)
(***************************************************************************)
EXTENDS Naturals, Sequences, SequencesExt

CONSTANTS
  Ask,     \* every call of AskDialogQueue.run
  Timed    \* promptTimeoutMs is configured

ASSUME TimedAssumption == Timed \in BOOLEAN

VARIABLES
  ask,     \* ask -> its AdmittedAsk: "none", "queued", "shown", "settled"
  answer,  \* ask -> what its caller's promise settled with
  tail,    \* the asks chained since the last release whose turn is not over
  screen,  \* the presentations that are pending in the host
  clock    \* the asks whose answer window has its clock running

dialogVars == <<ask, answer, tail, screen, clock>>

(* A human decides, and may do so for the whole session; or nobody decided: *)
(* the window ran out, the ask was released, or its presentation failed.   *)
HumanAnswers == {"decided", "decided_for_session"}
Unavailable == "unavailable"
NoAnswer == "no answer"

DialogTypeOK ==
  /\ ask \in [Ask -> {"none", "queued", "shown", "settled"}]
  /\ answer \in [Ask -> HumanAnswers \cup {Unavailable, NoAnswer}]
  /\ tail \in Seq(Ask)
  /\ screen \subseteq Ask
  /\ clock \subseteq Ask

DialogInit ==
  /\ ask = [a \in Ask |-> "none"]
  /\ answer = [a \in Ask |-> NoAnswer]
  /\ tail = <<>>
  /\ screen = {}
  /\ clock = {}

(* The asks that still owe their caller a value: AskDialogQueue.outstanding. *)
Outstanding == {a \in Ask : ask[a] \in {"queued", "shown"}}

(* A presentation the session has not given up on. *)
Live(a) == a \in screen /\ ask[a] = "shown"

-----------------------------------------------------------------------------
(* Bugs the properties must catch, each in place of a definition below. *)

AnyTurn(a) == Contains(tail, a)
NoTurnOver(a) == tail

-----------------------------------------------------------------------------
(* An ask joins the tail.  Every call of run() makes an ask of its own; a    *)
(* name serves again once nothing is left of the call it stood for.        *)
Admit(a) ==
  /\ ask[a] = "none" /\ a \notin screen
  /\ ask' = [ask EXCEPT ![a] = "queued"]
  /\ tail' = Append(tail, a)
  /\ UNCHANGED <<answer, screen, clock>>

(* The closure run() chains on the tail goes when its predecessors' are     *)
(* through; the closures of an earlier tail find their asks settled and do *)
(* nothing.                                                                *)
MyTurn(a) == tail # <<>> /\ Head(tail) = a
TurnOver(a) == IF MyTurn(a) THEN Tail(tail) ELSE tail

(* requestPermissionDecision opens the window as the dialog is mounted. *)
Present(a) ==
  /\ MyTurn(a)
  /\ ask[a] = "queued"
  /\ ask' = [ask EXCEPT ![a] = "shown"]
  /\ screen' = screen \cup {a}
  /\ clock' = IF Timed THEN clock \cup {a} ELSE clock
  /\ UNCHANGED <<answer, tail>>

(* The first keystroke stops the clock: engageClock. *)
Engage(a) ==
  /\ a \in clock
  /\ clock' = clock \ {a}
  /\ UNCHANGED <<ask, answer, tail, screen>>

(* The presentation's promise settles with v.  The caller's promise settles *)
(* once: what comes after a release is dropped.                            *)
Settled(a, v) ==
  /\ screen' = screen \ {a}
  /\ ask' = [ask EXCEPT ![a] = IF @ = "shown" THEN "settled" ELSE @]
  /\ answer' = [answer EXCEPT ![a] = IF ask[a] = "shown" THEN v ELSE @]
  /\ clock' = clock \ {a}
  /\ tail' = TurnOver(a)

(* A human answers, at a dialog that shows a running clock or not. *)
HumanRules(a) ==
  /\ a \in screen
  /\ \E v \in HumanAnswers : Settled(a, v)

(* The clock runs out: the signal closes the dialog, the host answers       *)
(* undefined, and the window itself decides.                               *)
Expire(a) ==
  /\ a \in clock
  /\ Settled(a, Unavailable)

(* The host refuses the dialog: run() rejects and the ask's turn is over. *)
HostFails(a) ==
  /\ a \in screen
  /\ Settled(a, Unavailable)

(* releaseAll: every outstanding ask is settled and the tail starts anew.   *)
ReleaseAll ==
  /\ ask' = [a \in Ask |-> IF a \in Outstanding THEN "settled" ELSE ask[a]]
  /\ answer' = [a \in Ask |-> IF a \in Outstanding THEN Unavailable ELSE answer[a]]
  /\ tail' = <<>>
  /\ UNCHANGED <<screen, clock>>

(* The process is gone, and with it the promises and the terminal. *)
DialogsLost ==
  /\ ask' = [a \in Ask |-> "none"]
  /\ answer' = [a \in Ask |-> NoAnswer]
  /\ tail' = <<>>
  /\ screen' = {}
  /\ clock' = {}

(* Whoever awaited the decision has it; the call is over. *)
Consumed(a) ==
  /\ ask' = [ask EXCEPT ![a] = "none"]
  /\ answer' = [answer EXCEPT ![a] = NoAnswer]
  /\ UNCHANGED <<tail, screen, clock>>

DialogStep(a) ==
  Present(a) \/ Engage(a) \/ HumanRules(a) \/ Expire(a) \/ HostFails(a)

-----------------------------------------------------------------------------
(* At most one dialog that the session still waits for is on the screen,    *)
(* and while it is no other ask's turn has come.  (The contract of          *)
(* ask-dialog-queue.ts:38-40, and what releaseAll at :99 leaves of it.)     *)
DialogsDoNotOverlap ==
  \A a \in Ask : Live(a) =>
    /\ MyTurn(a)
    /\ \A b \in Ask \ {a} : ~Live(b)
=============================================================================
