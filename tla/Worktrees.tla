------------------------------ MODULE Worktrees ------------------------------
(***************************************************************************)
(* The git worktrees children work in: pi-subagents-worktrees, worktree.ts *)
(* (create and clean up), active-worktrees.ts, preserved.ts,               *)
(* rescue-branches.ts and the command of preserved-command.ts. Every git   *)
(* command is synchronous, so a cleanup is one step, and each of them may  *)
(* fail. Temporary directories are assumed to stay.                        *)
(***************************************************************************)
CONSTANT Child   \* agent ids; each gets a worktree of its own

VARIABLES
  wt,       \* for each child: its worktree, what it holds, and its branch
  live,     \* ActiveWorktrees: worktrees this process knows a child to be in
  offered,  \* what the open /subagents-worktrees selector lists
  discarded \* worktrees a user confirmed the removal of

worktreeVars == <<wt, live, offered, discarded>>

(* work is what the child last left in it: changes, or commits of its own; *)
(* astray is what it wrote at its place once it was gone.                  *)
NoWorktree == [tree |-> "none", dirty |-> FALSE, ahead |-> FALSE,
               branch |-> FALSE, work |-> "none", astray |-> FALSE]

WorktreeInit ==
  /\ wt = [c \in Child |-> NoWorktree]
  /\ live = {} /\ offered = {} /\ discarded = {}

(* createWorktree() and the provider's live.add(), with no await between.  *)
CreateWorktree(c) ==
  /\ wt[c].tree = "none"
  /\ wt' = [wt EXCEPT ![c].tree = "present"]
  /\ live' = live \cup {c}
  /\ UNCHANGED <<offered, discarded>>

(* What the child's tools may leave in its worktree, or where it was; a    *)
(* child without one works in its parent's directory.                      *)
ToolEffects(w) ==
  {w} \cup
  CASE w.tree = "none" -> {}
    [] w.tree = "gone" -> {[w EXCEPT !.astray = TRUE]}
    [] w.tree = "present" ->
         {[w EXCEPT !.dirty = TRUE, !.work = "uncommitted"]}
         \cup IF w.dirty THEN {[w EXCEPT !.dirty = FALSE, !.ahead = TRUE, !.work = "committed"]}
              ELSE {}

ToolsRun(c) ==
  /\ \E w \in ToolEffects(wt[c]) : wt' = [wt EXCEPT ![c] = w]
  /\ UNCHANGED <<live, offered, discarded>>

(* removeWorktree() is best effort: git may refuse.                        *)
Removed(w) == {w, [w EXCEPT !.tree = "gone", !.dirty = FALSE, !.ahead = FALSE]}

(* (A bug: a cleanup that fails removes the worktree.)                     *)
RemovedAnyway(w) == Removed(w)

(* What is left of a worktree when a step of its cleanup fails: all of it. *)
LeftInPlace(w) == {w}

(* commitStaged(), past the hooks if they reject it.                       *)
CommittedTo(w) == [w EXCEPT !.dirty = FALSE, !.ahead = TRUE]

(* cleanupWorktree(): status, add, commit, branch, remove; git may fail at *)
(* each, and the name of the branch may be taken (createBranch).           *)
CleanupResults(w) ==
  IF w.tree # "present" THEN {w}
  ELSE LeftInPlace(w) \cup
       IF ~w.dirty
       THEN Removed(w)
       ELSE LeftInPlace(CommittedTo(w))
            \cup Removed([CommittedTo(w) EXCEPT !.branch = TRUE])

(* WorktreeWorkspace.dispose(): no child runs there any more.              *)
DisposeWorkspace(c) ==
  /\ \E w \in CleanupResults(wt[c]) : wt' = [wt EXCEPT ![c] = w]
  /\ live' = live \ {c}
  /\ UNCHANGED <<offered, discarded>>

(* findPreservedWorktrees(): what a session start and the command list.    *)
Preserved == {c \in Child : wt[c].tree = "present" /\ c \notin live}

(* findUnmergedRescueBranches()                                            *)
Unmerged == {c \in Child : wt[c].branch}

OpenCommand ==
  /\ offered = {} /\ Preserved # {}
  /\ offered' = Preserved
  /\ UNCHANGED <<wt, live, discarded>>

CloseCommand ==
  /\ offered # {}
  /\ offered' = {}
  /\ UNCHANGED <<wt, live, discarded>>

(* The user picks one and confirms.                                        *)
Discard(c) ==
  /\ c \in offered
  /\ offered' = {}
  /\ discarded' = discarded \cup {c}
  /\ \E w \in Removed(wt[c]) : wt' = [wt EXCEPT ![c] = w]
  /\ UNCHANGED live

(* The process ends; git's state stays, and `git worktree prune` at the    *)
(* next start drops only worktrees whose directory is gone.                *)
ProcessEnds == live' = {} /\ offered' = {} /\ UNCHANGED <<wt, discarded>>

CommandStep ==
  \/ OpenCommand \/ CloseCommand
  \/ \E c \in Child : Discard(c)

-----------------------------------------------------------------------------
(* What a child left in its worktree is where a later session looks for    *)
(* it: in a worktree that `held` says is still a child's, in one the scan  *)
(* lists, or on a branch.                                                  *)
Findable(c, held) ==
  \/ c \in Unmerged
  \/ wt[c].tree = "present" /\ (c \in held \/ c \in Preserved)
  \/ c \in discarded
=============================================================================
