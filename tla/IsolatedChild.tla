---------------------------- MODULE IsolatedChild ----------------------------
(***************************************************************************)
(* A child that runs in a worktree: lifecycle/subagent.ts brackets the     *)
(* session of ChildSession with a workspace of Worktrees, if its agent     *)
(* type is opted in. The process may end at any time; only git's state and *)
(* the files are left then.                                                *)
(***************************************************************************)
EXTENDS ChildSession, Worktrees

CONSTANT agent   \* the child whose session this is

ASSUME AgentAssumption == agent \in Child

VARIABLES
  optedIn,  \* worktreeAgents includes its type
  up,       \* its process lives
  bracket,  \* its WorkspaceBracket: none, prepared, disposed
  asked     \* its run holds a question for the parent

bracketVars == <<optedIn, up, bracket, asked>>
vars == <<childVars, worktreeVars, bracketVars>>

Init ==
  /\ ChildInit /\ WorktreeInit
  /\ optedIn \in BOOLEAN /\ up = TRUE /\ bracket = "none" /\ asked = FALSE

(* WorkspaceBracket.dispose(): the workspace goes once, if there is one.   *)
DisposeBracket ==
  IF bracket = "prepared"
  THEN bracket' = "disposed" /\ DisposeWorkspace(agent)
  ELSE UNCHANGED <<bracket, worktreeVars>>

Apart == UNCHANGED <<worktreeVars, bracketVars>>

-----------------------------------------------------------------------------
(* run(): the workspace first, the session in it next.                     *)

Prepare ==
  /\ optedIn /\ up /\ stage = "new" /\ bracket = "none"
  /\ CreateWorktree(agent)
  /\ bracket' = "prepared"
  /\ UNCHANGED <<childVars, optedIn, up, asked>>

(* The provider throws rather than run the child unisolated.               *)
PrepareFails ==
  /\ optedIn /\ up /\ stage = "new" /\ bracket = "none"
  /\ stage' = "failed"
  /\ UNCHANGED <<limits, published, runVars, loopVars, failure, teardownVars>>
  /\ Apart

SpawnChild == up /\ (optedIn => bracket = "prepared") /\ Spawn /\ Apart

(* fail(): a question is dropped and the workspace goes.                   *)
Failed == DisposeBracket /\ asked' = FALSE /\ UNCHANGED <<optedIn, up>>

CreationFails == (PreparationFails \/ FinishUnbound) /\ Failed

(* complete(): only a run that ended well holds its workspace, for the     *)
(* resume that answers its question.                                       *)
HeldForResume == outcome' # "error" /\ tracker'.phase # "exhausted" /\ asked

Completed ==
  /\ IF HeldForResume THEN UNCHANGED <<bracket, worktreeVars>> ELSE DisposeBracket
  /\ UNCHANGED <<optedIn, up, asked>>

RunEnds == (PromptResolves \/ PromptThrows) /\ IF outcome' = "error" THEN Failed ELSE Completed

(* A run, or a resume into a workspace that is still there; a signal that  *)
(* fired already ends it at once.                                          *)
StartRunInPlace ==
  /\ bracket # "disposed"
  /\ StartRun
  /\ asked' = FALSE
  /\ IF run' = "settled" THEN DisposeBracket ELSE UNCHANGED <<bracket, worktreeVars>>
  /\ UNCHANGED <<optedIn, up>>

(* The tools of a turn change the worktree, if its bracket was disposed    *)
(* under it too; one of them may be ask_parent.                            *)
TurnEnds ==
  \E e \in Ends :
    /\ TurnEnd(e[1], e[2])
    /\ IF e[2]
       THEN ToolsRun(agent) /\ asked' \in {asked, TRUE}
       ELSE UNCHANGED <<worktreeVars, asked>>
    /\ UNCHANGED <<optedIn, up, bracket>>

(* disposeHeldWorkspace() comes first, unless a run is under way; a run    *)
(* that was told to stop counts as over.                                   *)
TearDown ==
  \E k \in Caller : Dispose(k) /\ DisposeBracket /\ UNCHANGED <<optedIn, up, asked>>

ChildAlone ==
  /\ \/ CreateSession \/ Bound \/ BindingFails
     \/ FireSignal \/ Steer \/ TurnStart
     \/ HandlersSettle \/ BoundPasses
     \/ \E k \in Caller : FinishDispose(k)
  /\ Apart

(* The process ends, in a crash or not: only git's state is left.          *)
ProcessEnded ==
  /\ up /\ up' = FALSE
  /\ ProcessEnds
  /\ bracket' = "none" /\ asked' = FALSE /\ UNCHANGED optedIn
  /\ ChildGone

(* In this session or a later one.                                        *)
UserStep == CommandStep /\ UNCHANGED <<childVars, bracketVars>>

Next ==
  \/ Prepare \/ PrepareFails \/ SpawnChild \/ CreationFails
  \/ StartRunInPlace \/ TurnEnds \/ RunEnds
  \/ TearDown \/ ChildAlone \/ ProcessEnded \/ UserStep

Spec == Init /\ [][Next]_vars

(* Timers fire and continuations run; Pi's loop, the child's handlers and  *)
(* the user owe nothing.                                                   *)
Fairness ==
  /\ WF_vars(BoundPasses /\ Apart)
  /\ WF_vars(FinishUnbound /\ Failed)
  /\ \A k \in Caller : WF_vars(FinishDispose(k) /\ Apart)

FairSpec == Spec /\ Fairness

-----------------------------------------------------------------------------
TypeOK ==
  /\ stage \in {"new", "preparing", "binding", "unbound", "bound", "failed"}
  /\ run \in {"idle", "prompting", "settled"}
  /\ loop \in {"idle", "entering", "between", "turn", "doomed"}
  /\ bracket \in {"none", "prepared", "disposed"}
  /\ loop # "idle" => run = "prompting"
  /\ live \subseteq Child /\ offered \subseteq Child /\ discarded \subseteq Child

Held == IF bracket = "prepared" THEN {agent} ELSE {}

(* Changes a child had not committed in its worktree survive whatever git  *)
(* refuses, a crash and a teardown at any moment: a worktree that is still *)
(* listed or a branch has them (worktree.ts:7-8, README.md:54-66 of the    *)
(* package).  So do those that a turn adds after a teardown, as long as    *)
(* there is a worktree: a cleanup that failed left it.                     *)
WorkIsFindable ==
  \A c \in Child : wt[c].work = "uncommitted" => Findable(c, Held)

(* What it does not say: a turn that is told to stop and unwinds while its *)
(* worktree is removed writes on, and nothing saves that.                  *)
NothingGoesAstray == \A c \in Child : ~wt[c].astray

(* The command never offers to delete the worktree a child is working in.  *)
OfferedIsIdle == offered \cap Held = {}

(* "Whatever they produce is rescued to a branch when they finish"         *)
(* (README.md of the package): also what the child committed itself.       *)
CommittedWorkIsRescued ==
  \A c \in Child : wt[c].work = "committed" => Findable(c, Held)

(* A session that was announced is announced as disposed once binding      *)
(* failed or somebody asked for it, although a handler may hang            *)
(* (child-lifecycle.ts:44 "always fires"), unless the process ends first.  *)
DisposalIsAnnounced ==
  DisposalWanted ~> Published("disposed") \/ ~up
=============================================================================
