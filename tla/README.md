# Verification of pi-packages

TLA+ models, TLC runs and TLAPS proofs about the packages of the pi-packages
monorepo (extensions of the Pi coding agent).  All paths below are relative to
`src/packages/` unless they name a module of this directory.

## The system

### Inventory

| Part | State it keeps | Operations | What makes it correct | Modelled by |
| --- | --- | --- | --- | --- |
| pi-subagents, `lifecycle/concurrency-limiter.ts` | slots in use, queue of thunks | `schedule`, `recheck`, `clear`; a limit that changes under it | slots accounted for, FIFO starts, no lost wakeup, every promise settles | `ConcurrencyLimiter`, against the abstract `AdmissionGate` |
| pi-subagents, `lifecycle/subagent.ts`, `subagent-run.ts`, `subagent-manager.ts`, `workspace-bracket.ts` | records, the current run of each, status, session, workspace | spawn, resume, start, complete, fail, abort, abort all, sweep, clear, dispose | an end is final and reported once; sessions and workspaces are neither leaked nor pulled from under a live run | `SubagentLifecycle` |
| pi-subagents, `observation/notification.ts`, the delivery state of `subagent-run.ts`, the carriers in `tools/` | claims, consumption, the update ledger, withheld announcements | completion notices, updates, pull, wait, foreground and resume returns | every outcome and update reaches the parent once | `OutcomeDelivery` |
| pi-subagents, `lifecycle/create-subagent-session.ts`, `subagent-session.ts`, `turn-limits.ts`, `child-shutdown.ts`, `child-lifecycle.ts` | creation stage, turn budget, abort signal, failure collector, disposed flag | create, bind, run, resume, steer, abort, warn, stop, dispose | the child is stopped at its limit, a failure is never taken for an answer, the child is announced and disposed once | `TurnBudget`, `ChildSession`, `IsolatedChild` |
| pi-subagents, `settings.ts`, `layered-settings.ts`, `ui/subagents-settings.ts`, `config/`, `tools/spawn-config.ts` | settings in memory, two settings files, agent files | load, save, toggle, enter a number; resolve an agent, its locks, its limits, refuse a spawn | no setting out of range, a save reads back as what was saved, a locked field holds | `SubagentSettings`, `AgentTypes` |
| pi-subagents, `service/` | none of its own | spawn, resume, abort for other extensions | callers of the above | callers in `SubagentLifecycle`, `OutcomeDelivery` |
| pi-subagents, `session/` prompts, models and tool names; `ui/` widget; `handlers/` | registries, widget | parsing, rendering | | not modelled |
| pi-subagents-worktrees | worktrees and branches on disk, the live set, an open selector | prepare, save to a branch, remove, scan, discard | changes are saved before the worktree goes; nobody is offered a worktree in use | `Worktrees` |
| pi-permission-system, `authority/forwarding-*`, `forwarded-request-server.ts`, `approval-escalator.ts`, `serving-registry.ts` | request and response files, a poll timer and its lock, heartbeats | ask, poll, serve, answer, time out, give up, stop, crash | a request is served once at a time, an answer reaches the child that waits, nobody waits for nothing | `PermissionForwarding` |
| pi-permission-system, `ask-dialog-queue.ts`, `answer-window.ts` | queue of asks, an answer clock | admit, present, release, expire | dialogs do not overlap; no dialog holds the queue for good | `AskDialogs` |
| pi-permission-system, `authorizer-chain.ts`, `authorizer-selection.ts`, the dialog components | authority of the session, registered links, the dialog | select, register, authorize, press a key, choose | the first link that decides, decides; the terminal always does; no stray key approves | `AskAuthority`, `PermissionPrompt` |
| pi-permission-system, `policy/`, `session/` | rules per scope, session grants | normalise, merge, evaluate, grant, hide tools | last match wins, the most restrictive value wins, a grant covers what was shown | `PermissionPolicy` |
| pi-permission-system, `access-intent/`, `path/`, `tool-input/` | none | reading a shell command: its units, wrappers, redirects, files and effects | no command and no file escapes the rules | `BashEffects`, `BashWrappers`, `BashTree`, `BashPaths`, `BashUnits`, `BashScripts` |
| pi-permission-system, `handlers/` | calls under way, prompt's skills, active tools | six gates of a tool call, session events | a denied call is never asked about nor run; what ran had authority | `GateDescriptors`, `PermissionGate` |
| pi-permission-system, `config/` | settings in force, trust, the settings dialog | load, merge, refresh, toggle, save, reset | a project that is not trusted is not read | `PermissionConfig`, `SettingsStore` |
| pi-permission-system, `presentation/`, `logging/` | none | wording, review log | | not modelled |
| pi-permission-model-judge | configuration, a pending review | one link that denies typos or defers, with a timeout | it is consulted whenever it is configured and named | `ModelJudge`, `AskAuthority` |
| pi-autoformat | configuration, touched files, queued flushes | detect, record, flush, dispatch, run formatters | every touched file goes through its chains once | `ShellMutations`, `AutoformatConfig`, `Formatters`, `Autoformat` |
| pi-colgrep, `lib/reindex.ts` | in-flight and queued flags, a debounce timer | schedule, run now, shut down | an edit, also one during a build, is followed by a build unless the session ends first | `Reindexer` |
| pi-github-tools | none | sequential polling and retrying of `gh` | | not modelled |
| pi-session-tools, pi-nocd | none | formatting | | not modelled |

### How the parts interact

A parent agent spawns subagents through the `subagent` tool (foreground or
background) or through the service published for other extensions.  The manager
makes a record with an initial run; a background run waits on the limiter, a
foreground one starts at once.  A run asks the workspace provider for a
directory, creates a child session, and drives its turn loop; when the loop
returns the run completes, the workspace goes unless the child has asked a
question, and observers hear of it.  The first observer emits the lifecycle
event to other extensions, which may call back into the manager, and then lets
the notification manager decide whether the parent is owed a notice.  The
outcome reaches the parent by one of four carriers: the foreground return, the
resume return, `get_subagent_result`, or the completion notice.  Notices that
arise while the parent's own agent run is active are withheld until it settles.
A settled agent can be resumed on the same session, as a new run.

Inside the child the session is created, announced and bound, then Pi's agent
loop runs turns against a budget that comes from the call, the agent file and
the settings.  If the agent's type is opted in, the workspace is a git worktree
that is saved to a branch and removed when the run has ended.

Every tool call of a session, of parent or child, passes the gates of the
permission system.  A gate reads the call (for the shell: a parsed script)
against the policy; what the rules do not settle goes along the configured links
to an authority: the human of the session, or, in a child, the human of its
parent, reached through files that the parent's timer drains.  Dialogs of both
origins wait for one another in one queue.

The formatter and the indexer live off the same session events: tool results
name files, the ends of turns and of the session trigger flushes and builds.

### What is hard here

Everything runs on one JavaScript thread, so the hard parts are not data races
but *what happens between two callbacks*:

- `abort()` marks a run stopped at once, and the turn loop returns later: in
  between the record reads inactive and is not;
- thunks, promise callbacks and withheld notices run long after the state they
  were made for, and read the record, that is, whichever run is current;
- completion events are emitted synchronously from the middle of other
  operations (`abortAll`, `recheck`), and consumers may call back;
- a wait may be interrupted or run out while others hold the same outcome.

Between processes (a parent and a child that share files, git, a host that may
end at any time) it is *what is still there*: either side deletes files and
directories, dies, restarts or changes its id, and every git command may fail.
And where text is read (shell scripts, configuration files) it is *whether the
reading and the thing read agree*: the shell runs commands and touches files
whatever the parser made of them, and the files on disk say what they say
whatever the settings dialog has in memory.

`PROJECT.json` lists the hazards, each at its line.

## The modules

### `ConcurrencyLimiter`

`lifecycle/concurrency-limiter.ts`, whole.  `active` and `pending` are the
class's fields, `limit` is `settings.maxConcurrent`; `slot` says where each task
is (`pending`, `running`, `settled` between the task's promise and the `finally`
callback, `idle`).  `Schedule`, `StartNext`, `RecheckDone`, `Settle`, `Release`,
`SetLimit` and `Clear` are the operations.  `recheck()` starts tasks one by one
and each start runs the task's synchronous prefix, which may call the limiter
again; `recheck` is the state of that call stack and each start is a step.

`AdmissionGate` is what callers may rely on: a line, a set of holders and the limit
of the moment, without counter, loop or re-entrance.  `KeepsTheGate` says that the
limiter implements it, with `pending` for the line and the running and settled tasks
for the holders.

### `SubagentLifecycle`

`subagent.ts`, `subagent-run.ts`, `subagent-manager.ts`,
`workspace-bracket.ts`, the shutdown handler and the interrupt handler, composed
with an instance of `ConcurrencyLimiter` whose tasks are the runs.

| Model | Code |
| --- | --- |
| `registered`, `current`, `status` | `manager.agents`, `currentRun`, `run.status` ("ended" is completed, aborted or error) |
| `fiber[r]` | the await the async body of run `r` is suspended at: `prepare()`, `createSubagentSession()`, `runTurnLoop()` with a loop at work (`looping`) or, for a run that was aborted before it got there, without one (`returning`: `promptForAnswer()` takes no turn) |
| `session`, `attached` | the child session, and whether `subagentSession` is set (`releaseSession()` clears it, `disposeSession()` does not) |
| `workspace` | `WorkspaceBracket.prepared` and `disposedWorkspace` |
| `emitting`, `visiting` | the call stack: an `onRunFinished` observer is running; `abortAll()` is between two records |
| `Resumable`, `MayStart`, `Transition`, `TornDown` | `resumeRefusal`, the guards of the thunks, the `mark*` transitions, the bracket's `dispose()` |

A run's callbacks and user calls happen only with an empty stack.  Callers of
the manager may also act from inside a completion event (`CallerActs`).

Left out: steering, compaction events, the retention clock (any settled record
may be past its window), callbacks made by `onRunStarted` observers, and the
difference between the three ways a run ends by itself.

### `OutcomeDelivery`

`notification.ts`, the claims, consumption and update ledger of
`subagent-run.ts`, and the carriers.  One agent: announcements of different
agents share a queue and nothing else.  `told` is a history of what reached the
parent, appended by announcements and tool reports; the properties are about it.
A tool call is a process: a foreground or resume call, a pull, a wait that
claims, returns, or is abandoned by an interrupt or its bound.  `reporting` is
the window between the completion event and the decision whether to announce.
Every check of the notification manager reads the *current* run, as the code's
record does.  A settle of the parent flushes all withheld announcements in one
step; `Flush` is a recursive function over their sequence, each announcement
judged by what the ones before it left.

Left out: workspace notices, wording and truncation, and the limiter and the
session, which are `SubagentLifecycle`'s.

### `TurnBudget`, `ChildSession`

`ChildSession` is one child: `create-subagent-session.ts`, `subagent-session.ts`,
`turn-limits.ts` (the operators of `TurnBudget`), `child-shutdown.ts` and the
events of `child-lifecycle.ts`.

| Model | Code |
| --- | --- |
| `stage`, `published` | how far `createSubagentSession()` has come, and the lifecycle events it and the teardown have emitted |
| `run`, `outcome`, `signal`, `last` | the run of `runTurnLoop()`, what it returned, its abort signal, how the last response really ended |
| `tracker` | the run's `TurnBudgetTracker` |
| `loop`, `stopping`, `begun`, `spent`, `steered`, `unread`, `failure` | Pi's agent loop (external), the abort it was given, the turns of this run, a steer and a warning not yet read, the turn-failure collector |
| `disposing`, `disposed`, `handlers`, `timedOut` | callers suspended inside `dispose()`, the flag, the child's shutdown handlers and their bound |
| `limits` | what `SpawnLimits` makes of the registry, the settings and the call |

Pi's loop is external and modelled from how the code uses it: a prompt runs turns
while the last one ran tools or a steer waits, a failed response may be retried,
an abort without a loop does nothing.  The choices of a spawn come from
`AgentTypes`, so a refused spawn has no session.

### `SubagentSettings`, `AgentTypes`

Operators, no state of their own.  `SubagentSettings` is the load of the two
settings files (sanitising, ceilings, the project's key over the global one), the
setters, the dialog and the save.  `AgentTypes` is the registry over agent files
(case-insensitive names, the default agents, disabled ones), the merge of a call
with its agent file under the file's locks, and the refusals of
`SubagentManager.resolveSpawn()`.  `SpawnLimits` joins both: the limits a spawn
runs under, through either door (the tool, which knows locks, or the service).

### `Worktrees`, `IsolatedChild`

`Worktrees` is `pi-subagents-worktrees`: `wt` is what git holds for each child
(the worktree, what it contains, the branch), `live` is `ActiveWorktrees`, and
`offered` the list an open `/subagents-worktrees` selector shows.  Git commands
are synchronous, so a cleanup is one step, and each command in it may fail.
`IsolatedChild` composes it with `ChildSession` the way `subagent.ts` and
`WorkspaceBracket` do: the workspace is prepared before the session is created
and disposed when the run has ended without a question, when creation fails, or
in a teardown.  The process may end at any moment (`ProcessEnded`); git's state
and the files are what is left, and the start after it scans them.  A teardown may
come while a turn is still unwinding: what its tools do then, `TurnEnds` applies to
whatever is at their place, and `astray` records what they wrote where the worktree
had been.  One thing is coarser than the code: a subprocess of a tool that writes
between two git commands of a cleanup.

### `AskDialogs`

`ask-dialog-queue.ts` with `answer-window.ts` and the surfaces it presents on.
`ask` is the state of each `AdmittedAsk`, `tail` the chain of promises since the
last release, `screen` the presentations pending in the host, `clock` the answer
windows that run.  A release settles what is owed and starts a new chain; a host
that cannot close a dialog keeps it on the screen.

### `PermissionForwarding`

The child's side (`approval-escalator.ts`), the parent's (`forwarding-manager.ts`,
`forwarded-request-server.ts`) and what they share (`forwarding-io.ts`,
`forwarding-liveness.ts`, `serving-registry.ts`), composed with `AskDialogs`.

| Model | Code |
| --- | --- |
| `child`, `target`, `unserved` | where `ApprovalEscalator` is in its wait, the session id it resolved, the polls its target has looked unserved |
| `requests`, `responses`, `dirs` | the files and the directories of each inbox |
| `up`, `active`, `liveId`, `served` | the parent process, its bound context, the id it answers with, `servingSessionId` |
| `marks`, `beat` | the in-process registry and the heartbeat file |
| `processing`, `drain` | the lock, and the runs of `processInbox()`: a run that outlived its session and one after the restart are two |
| `grants` | the kinds granted for the whole session |

`ChildStep` and `DrainStep` take one await-to-await step of either side, so that
both cleanups, the deadline, the death of either process, a change of the id in
place and a stop with a restart fall between any two of them.  `todo` is the set
of requests a run of `processInbox()` has listed and not yet served; `NextFile`
takes the least of them, the order `listRequestFiles()` sorts the names into.

### `PermissionPolicy`, `GateDescriptors`, `PermissionGate`

`PermissionPolicy` is `policy/` and `session/` as operators: rules from scopes
(sugar, merge, baseline, fail-closed clamp), evaluation, grants, MCP targets,
fully denied surfaces.  `GateDescriptors` is the six gates of a call as operators
on it and on a policy.  `PermissionGate` is the life of calls: the gates of a call
are judged together, then run one by one, and one that asks suspends the call in
`calls[c].stage` at a link or at the human, while `policy`, `yolo`, `links`,
`tools` and the session change.  There the gates of a call are abstract questions
`[family, effects, place, licensed]`; what they are for a given call is the matter
of `GateDescriptors`, which the `bash` run checks.

A session is `on` from its start to `handleSessionShutdown()`, and its context is
`stale` once Pi has invalidated it (`ContextInvalidated`, external), which it does
when every extension's handlers of the end have returned.  A call remembers in
`terminal` the session whose authority its chain was composed with.  A link that
defers calls that terminal without looking again: its dialog opens as long as the
context is not stale, and throws in `describeSession()` when it is.  `late` is a
history: the calls links were thinking about when the session ended.

### `BashEffects`, `BashWrappers`, `BashTree`, `BashPaths`, `BashUnits`, `BashScripts`

The reading of shell scripts, in layers: what a command does to the words it
names; which words of a wrapper are the command inside it; the tree, the
directory in force at each node and the regions parsed again; which words are
paths, inside or outside; the units of a program and the verdict on it.  They are
operators.  `BashScripts` is the state machine that tests them: it builds a script
step by step and keeps, next to the tree, what *the shell* does with it (`runs`,
`files`, `dirs`), defined from the shell's semantics and not from the code.  When
the script is handed over, the verdict of the gates is held against both.

### `PermissionConfig`, `SettingsStore`, `PermissionPrompt`, `ModelJudge`, `AskAuthority`

`PermissionConfig` is the schema of a file, the merge of layers and what the
policy loader reads of the same files.  `SettingsStore` adds time: files are
edited, a session refreshes, the dialog toggles, saves and resets, a project is
trusted or not; `twin` carries, next to it, the same settings without any file of
a project.  `PermissionPrompt` is the inline dialog as a reducer of key presses,
and the menus that stand in for it.  `ModelJudge` is the judge's configuration and
what it makes of a reply.  `AskAuthority` composes them: a session selects an
authority, links register in either order, and one request goes through the links
(`ask.stage`) to a human, a relay, or a refusal.

### `ShellMutations`, `AutoformatConfig`, `Formatters`, `Autoformat`, `Reindexer`, `Companions`

`ShellMutations` says which files a tool call changed, `AutoformatConfig` what the
two layers of configuration come to, `Formatters` which formatter is due on which
files.  `Autoformat` is the queue of flushes of one session: `touched` is
`TouchedFilesQueue`, `flushes` the chain on `pendingFlush`, and every formatter is
awaited.

| Model | Code |
| --- | --- |
| `flushes[i].taken`, `groups` | what `queue.flush()` returned, and the groups of `groupFilesByChain()` the loop has not come to: a set, in which `NextGroup` finds the wildcard's first and the others by the place of their first file, as the array has them |
| `group`, `at`, `inputs`, `working` | the group at hand, the place of its step in the *configured* chain (the resolved chain is the set of places that resolve), `inputFiles`, `working` |
| `claimed` | `wildcardHandled` |
| `log` | history: what ran, at which step, on which files, and what it claimed |
| `written`, `owed`, `late` | history: files reported written, those in scope no flush has taken since, those reported after the last flush began |

  `Reindexer` is `lib/reindex.ts` field by field, with the `colgrep init`
processes in `builds`.  `Companions` is the host both live in: session start, tool
results, ends of turns and of the agent (awaited), and a quit at any moment.

### The surroundings: `Rash`

Some of what the code promises holds only if its surroundings avoid certain
moments, mostly the window between an abort and the return of the turn loop.
`SubagentLifecycle` and `OutcomeDelivery` take a constant `Rash`, the set of
moments the surroundings do not avoid, each described where it is declared.  The code accepts all of them; the
guard `"..." \in Rash \/ ...` belongs to the environment and not to the code.  A
property checked with `Rash = {}` is thus a conditional guarantee, one checked
with all of them is unconditional, and the violation run names the one moment
that breaks the promise.

## The runs

| Run | Asks | Result |
| --- | --- | --- |
| `limiter` | Does the limiter implement the gate, and does every promise settle, while the limit moves? | holds; 1,054 states |
| `lifecycle_any` | What holds of reports and slots whatever happens when (`Rash` = everything)? | holds; 3,723,269 states |
| `lifecycle_careful` | What is guaranteed of thunks, workspaces and sessions with careful surroundings? | holds; 198,058 states |
| `lifecycle_workspace_pulled` | Does a run whose turn loop is still at work keep its workspace when a session switch comes right after an abort? | violated |
| `delivery` | Is every outcome and update told once, by one carrier, with careful surroundings? | holds; 203,923 states |
| `child` | Does a child stay in its budget, never pass a failure off as an answer and come down in order, and is what it left uncommitted in its worktree findable after every cleanup, with racing teardowns, turns that unwind under them, hanging handlers and failing git? | holds; 1,189,841 states |
| `forwarding` | Is any request or ruling lost on the way, with stops, restarts, crashes, ids that change and dialogs of the parent's own? | holds; 1,666,804 states |
| `forwarding_ends` | Does every drain end and every unserved child give up, under fairness only of the code's own timers? | holds; 182,270 states |
| `gate` | Who lets what pass, and who is still asked, when two calls are under way while configuration, links and tools change and the session ends? | holds; 1,797,694 states |
| `bash` | Does any command or file of a script pass unasked against the rules? Does "for this session" settle what was asked? Is a hidden tool refused? | holds; 8,650 states |
| `ask` | Is an untrusted project unread, does a stray key approve, is the judge heard? | holds; 695,448 states |
| `companions` | Are files formatted exactly as configured, whatever the quit interrupts, and is an edit indexed, also one during a build, unless the session ends first? | holds; 101,800 states |

(States are distinct states; `gate` counts them up to the symmetry of its calls.)

### Bounds

- `limiter`: four tasks, limit one or two.  Two slots full, the limit lowered and
  two tasks waiting is the smallest overfull gate with an order to keep.
- `lifecycle_any`: two agents, one resume (so three runs at most), limit one or
  two: a queued resume behind an unwinding run, `abortAll()` that stops one agent
  while the event of the other calls back.  `lifecycle_careful`: the same with one
  slot, under fairness.  `lifecycle_workspace_pulled`: the least that shows the
  disagreement, one agent without a resume.
- `delivery`: two runs, two tool calls, two updates that may be alike: two waits
  on one run of which one is abandoned, a pull before the flush, two updates that
  say the same and are announced separately.
- `child`: one worktree, two runs of up to three turns (so the two reserved for
  warning and answer are not the whole run), four spawns (a short limit, a locked
  one, the default, a disabled agent), two callers of `dispose()`.  `ChildSession`
  is one session: sessions share nothing, worktrees share the live set only.
- `forwarding`: two requests of one kind, one from the parent's process and one
  from another, two session ids, two drains (one that outlived its session, one
  after the restart), one dialog of the parent's own, one poll of grace, one
  fault.  A fault is a change of the id in place, a stop, a crash or an event loop
  blocked past the age of its heartbeat, at any moment; two of them in one
  behaviour were left out for the size of the graph.  `forwarding_ends`: one drain,
  both requests addressed to the first id, for the liveness graph.
- `gate`: two interchangeable calls, three uses, two policies with one edit between
  them, two sessions: the second call's grant, the edit, the end of the session, the
  invalidation of its context and the second session each fall into the first call's
  suspension.
- `bash`: scripts of up to three steps from seven commands, three wrappers and two
  redirects under three policies, and thirteen calls of other tools.  Three steps are
  a command, a construct around it and what follows; deeper nesting repeats the
  same clauses of the recursion.  What hides a tool is held against every order of
  three patterns of its surface (`Exposures`), `*` and one with a `?` among them,
  allowed or denied, besides the three policies.
- `ask`: three starting sets of files, one edit, one request of three, three kinds
  of context, two judge files, six keys, one session, one relay.  The number of key
  presses is not bounded: the reducer's states are few.
- `companions`: three pairs of configuration layers, twelve tool results, two
  touches, three events, two builds at a time: a file named before, during and
  after a flush, and a build asked for during a build.

`CHECK_DEADLOCK FALSE` appears where the system really may stop: the bounds are
used up and all has ended, the process is gone, or the script was handed over.

### Fairness

`LimiterFairness`: a `recheck()` on the stack goes on (weak fairness), and a
promise callback runs once the stack is empty even if other callbacks fill it
again (strong fairness; the event loop is a FIFO queue).  `Fairness` of
`SubagentLifecycle`: synchronous code returns and the pending callback of each
run gets its turn.  That a provider's `prepare()`, the session factory and the
turn loop settle is an assumption on Pi and on the provider.  `Fairness` of
`OutcomeDelivery`: slots open, turn loops return, settled calls continue, and Pi
settles the parent's run (`agent_settled` fires in a `finally`).  Nothing obliges
anybody to spawn, pull, resume, abort or dispose.

`Fairness` of `PermissionForwarding`: a child in its loop polls (a `setTimeout` it
sets itself), microtasks run, a link settles by its own timeout, the clock of a
dialog that nobody touches runs out, and a human who has begun to answer comes to
an end.  Nothing is assumed of the child's deadline, of the parent's timer or of a
human who has not begun: those are the cases the properties are about.  `Fairness`
of `IsolatedChild`: the bound on shutdown handlers passes and continuations run;
Pi's loop, the handlers and the user owe nothing.  `FairSpec` of `Companions`:
`WF(Index)`, a build ends within its timeout and a timer fires.

## What the models found

One promise of the code's own comments is broken whatever the surroundings owe,
and has a run: **an aborted run's workspace is pulled**
(`lifecycle_workspace_pulled`).  `disposeHeldWorkspace()` skips active records, and
`abort()` makes a record inactive before its loop has returned.  The trace: a run is
spawned, its workspace prepared, its session created and its turn loop entered; it is
aborted; a session switch (`clearCompleted()`) removes the directory under the loop,
against the comment at `subagent.ts:804-806`.  (An abort that comes before the
session exists leaves no loop: the run ends without a turn, and the property does not
speak of it.)

The other properties below are stated in their modules and broken by the model;
they are not among the runs, since what they say is intended by nobody's text as
clearly, or is accepted by it.

*Delivery* (with the moments of `Rash` that break it): a withheld notice names the
record, and if the parent pulls the result and resumes the agent within the turn
the flush speaks of the resumed run (`NudgesAreEnds`, `notification.ts:395`); a
pull of a running agent renders the updates it owes without marking them, so they
are told twice (`AnnouncedUpdateIsNews`, `get-result-tool.ts:159`); a pull right
after an abort counts the run as collected before it has a result
(`CollectedWhole`, `get-result-tool.ts:131`).

*Lifecycle*: a session created after its record was torn down is never disposed
(`NoOrphanSession`, with `teardown_unwinding`); a consumer that spawns from a
completion event of `abortAll()` loses its thunk to `limiter.clear()`
(`QueuedRunHasThunk`, with `call_in_abort_all`); a consumer that resumes from a
completion event makes the notification manager look at the new run, so the old
outcome may go untold (`OutcomesTold`, with `resume_undelivered`).

*Worktrees*: what a child committed itself, with a clean tree after it, is not
rescued (`CommittedWorkIsRescued`; `worktree.ts:104` looks at the tree only, the
README of the package at line 88 speaks of whatever the child produces).  A turn that
unwinds while a teardown removes its worktree, the moment of the violation run, goes
on writing: nothing saves that (`NothingGoesAstray`).  `WorkIsFindable` is about what
was in the worktree when the cleanup came to it.

*Gates*: a call that a link was thinking about when the session ended, and that it
then leaves to the human, is put to the human all the same until Pi invalidates the
context (`LinkRules`): the authorizer chain calls the terminal it captured
(`authorizer-chain.ts:49`) and the queue has been emptied but not closed
(`ask-dialog-queue.ts:96-103`).  `docs/plans/0965-serialize-permission-asks.md:49`
wants every pending ask settled at the shutdown.  `LateAsksComeFromLinks` says that
nothing else is asked then.  After the invalidation the call is refused, with
`permissions:ui_prompt` already emitted.

*Hidden tools*: the probe that hides a tool takes the patterns of its rules for
values, as `rule.ts:156-159` says, and may be wrong.  `*` denied, `srv_*` allowed and
`srv_?` denied hide `mcp`, although its call of `srv_t1` would pass; `git *` allowed and
`git * *` denied hide the shell, although bare `git` would, since a trailing blank and
star also match nothing.  `HiddenToolsAreRefused` is stated for the configurations whose patterns
the probe reads exactly (`ProbeIsExact`), for tools other than the shell, and without
the session's own rules.

*Judge*: it takes up surface `external_directory` only (`typo-reviewer.ts:118`),
while the gates of the read and write tools ask on the directional surfaces
(`TyposAreReviewed`; its README, line 25).  It awaits the key of its model outside
its timeout; a throw there is a gate error.

*Indexer*: two builds overlap when the debounce fires during a manual run, and one
may outlive the shutdown (`OneBuildAtATime`; no run excludes it).  What the shutdown
finds waiting, a timer or a queued request, it drops: that edit is indexed by no build
of this session, and `EditsAreIndexed` excepts it.

Observations that came with the modelling and are properties of nothing:

- permission settings: `doublePressToConfirm` toggled in the dialog is reverted by
  the next refresh; a save over a global file that does not parse erases its rules;
  toggling any setting writes a trusted project's `yoloMode` and log settings into
  the global file; a reset drops the link chain, the prompt timeout and the dialog
  keys in memory until the next refresh; a project file re-enables yolo that was
  switched off in the dialog; trust is read anew each turn for settings and only at
  session start for policy;
- subagent settings: the dialog checks the minimum only, so a number above a ceiling
  is accepted, saved, and dropped by the next load; a save writes the project's file
  from memory and so erases edits made by hand since; a list emptied in the project
  is refilled from the global file; locks apply at the tool's door only;
- gates: a session grant overrides a configured deny and yolo lifts the fail-closed
  clamp, both by design; a dialog that the end of the session did not release (see
  above) can still be answered "for this session", and the rule is then there for the
  next session of the same instance, whose start clears none;
- shell scripts: the shell opens the file of a redirect before it runs the command, the
  code reads its path from the directory after it, so the two differ for a redirect of
  a script that ends in another directory than it begins in; such redirects are not
  built, and `NoFileSlips` says nothing of them (`RedirectTo` in `BashScripts`);
- dialog: any key stops the clock of the inline dialog, but nothing a human does in
  one of the menus shows, so the clock runs on there until a choice is made;
- formatter: the `treefmt-nix` fallback is probed by a name that is not the command
  it runs (`nix fmt`); a fallback whose formatter skips the file does not yield to
  the next; files touched during the last flush of a session are lost; `sed -e` is
  misread (the source says so);
- indexer: an edit during a first manual build is never scheduled, and edits closer
  together than the debounce postpone the build for as long as they go on.

## What is proved

The theorems hold for every value of the constants that the assumptions named
below allow.  Each inductive invariant was checked by TLC in the configurations
of the runs before it was proved; those that are proved and say little beyond the
accounting (`SlotAccounting`, `QueueAccounting`, `NoIdleSlot`,
`OverLimitOnlyDrains`, `OnlyCurrentRunActive`, `EndIsFinal`, `BodiesHoldSlots` and
the types) are not among the runs, nor is `FifoAdmission`, which `KeepsTheGate`
contains.

Where a theorem needs careful surroundings, it names the moments of `Rash` that
have to be avoided and no others, as a hypothesis; the theorem then holds of every
`Rash` without them.

| Module | Stated of the runs' properties | Hypothesis on `Rash` |
| --- | --- | --- |
| `ConcurrencyLimiterProofs` | `KeepsTheGate` | |
| `SubagentLifecycleProofs` | `ReportedOnce`, `LimiterIntact` | |
| | `QueuedRunHasThunk` | no `call_in_abort_all` |
| | `OneLoopPerSession` | no `resume_unwinding` |
| | `WorkspaceOutlivesLoop` | `Rash = {}` |
| `OutcomeDeliveryProofs` | `OneCarrier` | no `resume_undelivered`, no `resume_withheld` |
| | `OutcomesTold`, `UpdatesTold` | besides, no `collect_unwinding` |
| `IsolatedChildProofs` | `TurnsWithinBudget`, `NoFailurePassesAsAnswer`, `TeardownInOrder`, `WorkIsFindable` | |
| `PermissionForwardingProofs` | `DialogsDoNotOverlap`, `NobodyWaitsForNothing`, `OneDrainAtATime`, `RulingReachesChild`, `AnnouncedIsDrained` | |
| `PermissionGateProofs` | `DeniedNeverAsked`, `RanWithAuthority`, `LateAsksComeFromLinks`, `GrantsCoverWhatWasShown` | |
| `AskAuthorityProofs` | `UntrustedProjectIsUnread`, `KeysDecideOneThing`, `JudgeIsHeard`, `NoStrayKeyApproves` | |
| `CompanionsProofs` | `OnlyConfiguredRuns`, `DispatchIsExact`, `NothingWrittenIsLost` | |

Every safety property of the passing runs is proved, but for the four of `bash`.

### The limiter and the lifecycle

`ConcurrencyLimiterProofs`, from `TaskAssumption` (finitely many tasks) and
`LimitAssumption` (limits are positive): `LimiterInv`, the conjunction of the
types, `SlotAccounting`, `QueueAccounting` and `NoIdleSlot`, is inductive.  The
conjuncts need each other only here and there: that the counter stays natural
needs the accounting (a slot is given back by a holder, so there is at least
one), and that `StartNext` takes a task that is waiting needs the queue to hold
waiting tasks and each of them once.  `QueueByElement` restates the queue's
contents index by index, the form the steps are proved in; `HolderAdded` and
`HolderRemoved` do the counting.  `GateImplemented` is the refinement of
`AdmissionGate`: `Schedule` is an arrival, `StartNext` an admission, `Release` a
departure, `Clear` disperses the line, and what else the limiter does shows nothing
of the gate.  An admission is where the invariant is needed: the loop compares the
*counter* with the limit, the gate counts the holders.  `FifoAdmission` and
`OverLimitOnlyDrains` are action properties proved of each step from the invariant.

`SubagentLifecycleProofs`, from `NumAgentsAssumption`, `MaxResumesAssumption` and
`LifecycleLimitAssumption`:

1. `LimiterImplemented`: every step of the manager is a step of the limiter or
   leaves it alone.  It needs one fact of its own, that a resume stays within the
   runs there are.  With the tasks finite (`RunsFinite`), `LimiterInvariant` of
   the limiter's proofs then holds of the instance (`LimiterStaysSound`).
2. `LifeInvariant`: `LifeInv` is inductive, given 1.  `ReportedOnce` and
   `OnlyCurrentRunActive` are not inductive alone.  A resume replaces the current
   run, so that run must have ended; the code refuses a resume while a *resumed*
   run is queued but not while a *first* run is, and what saves it is that the
   agent has no session yet: a run whose agent has a session, or has been resumed,
   has begun.  The same fact makes the thunk of a first run, which asks the
   agent and not the run whether to start, ask about itself.  That a thunk on the
   queue belongs to a run that has not begun comes from the limiter's queue.
   `TypeCorrect`, `CurrentRunOnly`, `ReportsOnce` and `LimiterStaysIntact` follow;
   `EndsStay` and `SlotsCoverBodies` are proved of each step.
3. `QueueInvariant`: a queued run loses its thunk only to `limiter.clear()`, at
   the end of `abortAll()`.  So the invariant follows the loop: an agent whose
   record the loop has passed is not active any more, and every active agent has
   a record for the loop to come by.
4. `OneBodyInvariant`: beside a body that is under way its agent has neither
   another body nor a queued run that would become one.
5. `HeldInvariant` and `ReachInvariant`, on top of 3 and 4: the first says that a
   workspace stays for as long as a run of its agent is queued or under way, the
   second that what is prepared or live can be reached through a record, from
   which `WorkspacesAreReachable` and `SessionsAreReachable` follow.  The latter
   needs the former's case of the shutdown: the records are cleared only when
   nothing is under way.

### What the parent is told

`OutcomeDeliveryProofs`, from the bounds being naturals:

1. `CarrierInvariant`: at most one completion is on its way (the event being
   reported, or one withheld announcement), of the current run, which is over and
   was neither announced nor returned.  It also says who may still return a
   run: a call that holds its claim, or that waits for the current run.  A resume
   is what can break it, since announcements name the record and not the run.
2. `OutcomeInvariant`, given 1: an ended run was told, is claimed, or its
   completion is on its way; a run that counts as collected was told; and every
   update the child sent was heard, is withheld, or is owed with the outcome.

What the flush does to a queue of any length is proved of the recursive function
`Flush` by least counterexample: were there a prefix after which the claim fails,
there would be a shortest one (`WFMin` on the naturals), and it is not empty and
its predecessor does not fail.

### The child

`IsolatedChildProofs`, from `SpawnChoicesAssumption` (turn limits that a call, an
agent file and the dialog name are integers) and `AgentAssumption` (the modelled
session's child is one of the children): four parts, each inductive on top of the
types.  *Budget*: the tracker's count is the number of turns that ended well, an
exhausted tracker has aborted the loop, and a turn under way began below the
limit; that the limit is one at all comes from the lemmas on settings below.
*Failure*: until the session is disposed of, the collector agrees with the last
response.  *Teardown*: whoever waits in `dispose()` is the only one, it has set
the flag and has not announced; so the announcement comes once.  *Worktree*: what
git holds is what the last cleanup left, and the work that was in it is in it still or
on a branch, also where the turn that made it was unwinding when the cleanup came;
where no worktree is left, tools have nothing of the child's to change.

The same module, for every pair of settings files, every registry and
every call: what a load puts in force is within the ceilings
(`LoadedSettingsAreInRange`), because the sanitiser drops what is not and the
defaults are (`NormalizedIsInRange`, `DefaultsAreInRange`); settings that are in
range and saved are read back as they were (`SavedSettingsReload`), key by key
along `SnapshotDomain` and `SnapshotValue`; a turn limit that an agent file locks
is the limit of the run whatever the call asks (`LockedLimitHolds`); and a run that
has a limit has a turn to work and a turn to answer (`LimitsLeaveATurnToAnswer`).

### The permissions

`PermissionForwardingProofs`, from `RequestAssumption`, `AskAssumption`,
`GraceAssumption` and `IdAssumption` (the shapes of the constants): *dialogs*, the
tail holds unanswered asks, each once, and only its first can be shown;
*serving*, only the served id is announced and the lock is held by the run of
`processInbox()` under way; *files*, a request lies where its child was sent,
beside a directory for its response, and the list a run works through names
requests of its own inbox.  `NobodyWaitsForNothing` is not inductive without the
last two: while its child waits a request is removed only after the answer was
written, and the answer can be written only if both directories stand together.

`PermissionGateProofs`, from `UsesAssumption` (a call puts finitely many
questions, each about some effect) and `PoliciesAssumption` (a configuration
decides every surface; what it does not name has a default): every gate that was
judged is still to be run or was settled by someone who may, the gates are ordered
with the refusals first, every rule of the session stems from an answer given since
they were last cleared, and once the session has ended only what was with a link then
is with a link or the human.  `GrantsCoverWhatWasShown` is an action property that
needs the third part, `LateAsksComeFromLinks` follows from the fourth.

`AskAuthorityProofs`, from `StartsAssumption` (a set of configuration files says
of each layer what it holds, if only that it is missing):

1. `DialogKeysResolve` is about `resolveDialogKeys()` alone, for every value of
   the setting.  A round drops every override whose character two actions would
   answer to.  Defaults differ, so if anything is contested one of the two is an
   override; each round therefore drops the override of some action or there is
   nothing left to drop (`DroppedOnce`), and the code's five rounds are enough for
   five actions (`FiveRounds`).  That no key is refused without a reason holds of
   each round and survives the next.
2. `TwinInvariant`: until the project is trusted the store and its twin, whose
   project is empty, have the same other files, settings in force, declared
   effects, policy trust and open settings dialog.  The dialog is what makes the
   property more than a step's: it writes what it was opened with.
   `ReadsDecide` says that a load depends on the layers it reads and on nothing
   else.
3. `JudgeInvariant`, registration and consultation: "ready" comes twice, and
   between the two the judge may load its configuration, so until the second one a
   loaded judge may be missing from the links; a request is taken only after it.
   A request that names the judge has consulted it or has it before it.
4. `PromptInvariant`: an armed decision is the one the last key that counts is
   bound to.  `OneKey` proves this of every key in every step of the dialog, for
   every keyboard; it rests on 1 through the fact that the application's own key,
   which can be pressed at any time, is none that a decision may be bound to.

### The formatter

`CompanionsProofs`, from `LayersAssumption` (a parsed chain is an array of steps that
list names), `TouchAssumption` (what the bus names is a path) and
`DetectionAssumption`: the tool results of the session are ones whose files
detection gets right.  The last is a restriction, and the code does not owe it: the
reading of shell commands is a heuristic.  What detection misses nobody formats, and
what it makes of a command wrongly may be formatted though nobody wrote it; the
theorems are about what becomes of a file once it is named.

1. *What the files say.*  `WalkedIsDue`: the chain that a flush finds under a key is
   the one the two config files come to when they are read without the loader (the
   project's if it is sound as a whole, else the global one's), step by step, and
   names only formatters that are declared or built in.  It follows the loader from a
   file (`LayerFormatters`, `LayerChains`) through the merge (`MergedObject`,
   `LoadedObject`).  A chain is validated against its own file's formatters only, so
   that its names resolve in the merged configuration needs the merge to lose none.
2. *Where a flush stands.*  `Walk`: no group has begun, or is at a step, or is past;
   whatever was due at a step of a group that is past, the files went through or a
   dispatcher had claimed them (`PastStep`), and in the group at hand what is left of
   its files is what nobody has claimed (`Within`).  `Enters`, `Advances`,
   `NothingRan` and `SomethingRan` move it along: a group is left only when no step of
   it is ahead or no file is left, and a group is passed over only when all its files
   are claimed or no step of it resolves (`PassedOver`).  `Logged` says what the log
   may hold: of one step and file one entry, and nothing after a claim.
3. *The session.*  `IInv` adds that only the first flush of the chain has begun, that
   the shutdown's is its last, that the configuration is that of the session's files
   while anything is queued, and that what is owed is in the queue, or came late once
   the last flush has begun.  `SessionInvariant` states it; the three properties
   follow, `NothingWrittenIsLost` of the one step that takes the session down.

What `Enqueue` does to a queue for any number of spellings is proved by least
counterexample, as for `Flush`.

## What is only model-checked, and why

Liveness (`EveryPromiseSettles`, `QueuedRunEnds`, `EveryEndIsTold`,
`InboxKeepsMoving`, `UnservedChildEnds`, `DisposalIsAnnounced`, `EditsAreIndexed`)
is checked by TLC under fairness and is not proved: the proof system does not do
`ENABLED`.

The reading of shell scripts is written with recursive operators over trees of any
depth, which the provers cannot reason about: `BashTree` and what extends it, and
so the properties of `bash`, are TLC's.

That the tool results of `companions` are detected as they were written
(`DetectionAssumption`) is evaluated by TLC on the twelve of its run, shell commands
among them; and the rounds of discovery (`WalkUp`, a fold) enter no proof, since what
the formatter runs is right whichever root a built-in finds.

Some properties are stated in their modules, were checked with the configurations
above, and are left out of them because a stronger one covers their ground:
`HeldWorkspaceReachable`, `ReportsOnlyOwed`, `UpdatesPrecedeOutcome`,
`SilentOnceDisposed`, `WarningIsRead`, `OnlySpentRunsAreCut`, `OfferedIsIdle`, `EngagedHumanDecides`.

## What is not modelled

`PROJECT.json` lists every component with the reason.  In short:

- `pi-github-tools`, `pi-session-tools`, `pi-nocd`: sequential polling of a
  service, and formatting; no protocol.
- Wording, rendering and logs of every package; prompts, models, thinking levels
  and tool names of child sessions; the widget.
- pi-subagents: steering of queued runs, the retention clock (any settled record
  may be past its window), workspace notices, fractional limits.  Pi's agent loop,
  its retries and its abort are external and modelled from the code's use of them
  and from the observations recorded in `docs/plans`; Pi's `terminate` flag on the
  ceiling turn and a teardown during binding are left out.  Agent files are read
  again when a queued session is created; the model reads them once.
- Worktrees: another process's live worktree, a temporary directory cleared by
  somebody else, a user who merges a branch.
- Forwarding: a request is one file; its contents and a grant wider than its kind
  are in the gate modules.
- Shell scripts: here-documents, arguments that are redirects to other shells'
  syntax, Windows path spelling, a `cd` inside a condition or a substitution, a redirect
  of what a `cd` ends.
  `HonorChildFloor` and `InlineShellPayload` are translated and no run reaches
  their special case.
- Configuration: comment stripping, YAML, loader caches, inherited registrations.
  In `AskAuthority` the settings, links and session change between asks only: an
  ask captures what it needs when it begins, so these steps commute with it.
- Formatter: reports, and snapshots (no glob resolves in production).  Indexer: the
  search tool.

## Plan

What would come next, in this order:

1. Model: two faults in one behaviour of the forwarding; a second child beside the
   first, sharing the live set.
2. An abstract inbox (requests that are served once, or given up) that the
   forwarding implements, as the limiter implements the gate.
