------------------------------ MODULE Autoformat ------------------------------
(* pi-autoformat in one session: extension.ts and prompt-autoformatter.ts.    *)
(* Tool results and the event bus name files; the end of a turn, the end of   *)
(* the agent and the shutdown each queue a flush, one behind the other; a     *)
(* flush takes what was named and walks it through the chains.  Every         *)
(* formatter it runs is awaited, and the session goes on meanwhile.           *)
EXTENDS Formatters, ShellMutations

CONSTANT NoConfig   \* config while the extension holds no state

VARIABLES
  config,   \* what loadAutoformatConfig() made of the files
  touched,  \* TouchedFilesQueue, in the order of insertion
  cache,    \* the discovery cache of the built-ins
  flushes,  \* the flushes queued on pendingFlush, the one that runs first
  written,  \* history: files reported written in this session
  owed,     \* history: those no flush has taken since
  late      \* history: those reported since the last flush of the session began

formatVars == <<config, touched, cache, flushes, written, owed, late>>

FormatInit ==
  /\ config = NoConfig /\ touched = <<>> /\ cache = None /\ flushes = <<>>
  /\ written = {} /\ owed = {} /\ late = {}

Up == config # NoConfig

(* ensureState() in session_start: the files are read, the bus is subscribed. *)
LoadSession(global, project) ==
  /\ ~Up
  /\ config' = LoadAutoformatConfig(global, project)
  /\ written' = {} /\ owed' = {} /\ late' = {} /\ cache' = None
  /\ UNCHANGED <<touched, flushes>>

Closing == \E i \in 1..Len(flushes) : flushes[i].by = "shutdown" /\ flushes[i].began
Reported(files) ==
  LET due == {f \in files : InScope(f, config)}
  IN  /\ written' = written \cup files /\ owed' = owed \cup due
      /\ late' = IF Closing THEN late \cup due ELSE late

(* tool_result; truth is what the call wrote.                                 *)
RecordToolResult(result) ==
  /\ Up
  /\ IF result.error THEN UNCHANGED <<touched, written, owed, late>>
     ELSE /\ touched' = Enqueue(touched, Candidates(config, result), config)
          /\ Reported(IF Detects(config, result) THEN result.truth ELSE {})
  /\ UNCHANGED <<config, cache, flushes>>

(* subscribeToEventBus(): another extension names a file, at any time.        *)
BusTouch(spelling) ==
  /\ Up /\ config.eventBusMutationChannel.enabled
  /\ touched' = Enqueue(touched, <<spelling>>, config)
  /\ Reported({PathOf[spelling]})
  /\ UNCHANGED <<config, cache, flushes>>

-----------------------------------------------------------------------------
NoGroup == [wildcard |-> FALSE, chain |-> <<>>, files |-> {}]
Queued(by) == [by |-> by, began |-> FALSE, taken |-> <<>>, groups |-> {}, group |-> NoGroup,
               at |-> 0, inputs |-> {}, working |-> {}, claimed |-> {}, log |-> <<>>]

(* queueFlush()                                                               *)
QueueFlush(by) ==
  /\ Up
  /\ flushes' = Append(flushes, Queued(by))
  /\ UNCHANGED <<config, touched, cache, written, owed, late>>

Awaiting(by) == \E i \in 1..Len(flushes) : flushes[i].by = by

\* pendingFlush.then(): a flush begins when those before it are through.
Chained(i) == i = 1

(* (A bug: what a dispatcher claimed goes through the chains once more.)      *)
InputsAll(f, group) == group.files
Inputs(f, group) == IF group.wildcard THEN group.files ELSE group.files \ f.claimed

\* The loop of flushPrompt() passes over groups with nothing to do; the
\* wildcard's group comes first, the others as their first files were touched.
Due(f) == {g \in f.groups : Inputs(f, g) # {} /\ ResolveChainSteps(g.chain, config) # {}}
Touched(f, group) == Earliest({i \in DOMAIN f.taken : f.taken[i] \in group.files})
NextGroup(f) ==
  CHOOSE g \in Due(f) : \A h \in Due(f) :
    g.wildcard \/ (~h.wildcard /\ Touched(f, g) <= Touched(f, h))
Entered(f) ==
  IF Due(f) = {} THEN [f EXCEPT !.groups = {}, !.group = NoGroup, !.working = {}]
  ELSE LET g == NextGroup(f)
       IN  [f EXCEPT !.groups = Due(f) \ {g}, !.group = g,
                     !.at = Earliest(ResolveChainSteps(g.chain, config)),
                     !.inputs = Inputs(f, g), !.working = Inputs(f, g)]

(* flushPrompt(): the queue is emptied and its files are grouped.             *)
BeginFlush(i) ==
  /\ i \in 1..Len(flushes) /\ ~flushes[i].began /\ Chained(i)
  /\ flushes' = [flushes EXCEPT ![i] =
       Entered([@ EXCEPT !.began = TRUE, !.taken = touched,
                         !.groups = GroupFilesByChain(ToSet(touched), config)])]
  /\ touched' = <<>> /\ owed' = owed \ ToSet(touched)
  /\ UNCHANGED <<config, cache, written, late>>

(* The rest of the chain gets what no built-in has claimed; past the last     *)
(* step, the wildcard's group keeps its claims from the other groups.         *)
StepsAhead(f) == {s \in ResolveChainSteps(f.group.chain, config) : s > f.at}
Advanced(f, handled) ==
  LET unhandled == f.working \ handled
  IN  IF unhandled # {} /\ StepsAhead(f) # {}
      THEN [f EXCEPT !.at = Earliest(StepsAhead(f)), !.working = unhandled]
      ELSE Entered([f EXCEPT !.claimed = IF f.group.wildcard THEN f.inputs \ unhandled ELSE @])

Ran(f, name, handled) ==
  [f EXCEPT !.log = Append(@, [wildcard |-> f.group.wildcard, step |-> f.at, name |-> name,
                               files |-> f.working, handled |-> handled])]

\* A batch keeps the order in which its files were touched.
Batch(f) == SelectSeq(f.taken, LAMBDA file : file \in f.working)

(* executeChainGroupWithPartition(), one step: an ordinary formatter takes    *)
(* the batch and leaves it in the chain, whatever its exit; a built-in        *)
(* without a config or with a skip leaves no run.                             *)
RunStep(i) ==
  /\ i \in 1..Len(flushes) /\ flushes[i].group # NoGroup
  /\ LET f == flushes[i]
         step == f.group.chain[f.at]
         choice == Choice(step, Batch(f), cache, config)
         name == step.names[choice.at]
         root == DiscoverRoot(name, Batch(f), choice.cache)
         Goes(next) == flushes' = [flushes EXCEPT ![i] = next]
     IN  \/ choice.at = 0 /\ Goes(Advanced(f, {})) /\ cache' = choice.cache
         \/ /\ choice.at # 0 /\ ~ResolveFormatterByName(name, config).builtin
            /\ Goes(Advanced(Ran(f, name, {}), {})) /\ cache' = choice.cache
         \/ /\ choice.at # 0 /\ ResolveFormatterByName(name, config).builtin
            /\ cache' = root.cache
            /\ IF root.root = NoRoot THEN Goes(Advanced(f, {}))
               ELSE \E r \in Reports(name, f.working) :
                      Goes(Advanced(IF r.skip THEN f ELSE Ran(f, name, r.handled), r.handled))
  /\ UNCHANGED <<config, touched, written, owed, late>>

Formatted(f) == f.began /\ f.group = NoGroup

(* The promise settles, and whoever awaited it goes on: session_shutdown      *)
(* unsubscribes and drops the queue with the autoformatter that holds it.     *)
Closed == config' = NoConfig /\ touched' = <<>> /\ owed' = {} /\ late' = {}
EndFlush(i) ==
  /\ i \in 1..Len(flushes) /\ Formatted(flushes[i])
  /\ flushes' = RemoveAt(flushes, i)
  /\ IF flushes[i].by = "shutdown" THEN Closed ELSE UNCHANGED <<config, touched, owed, late>>
  /\ UNCHANGED <<cache, written>>

FlushStep == \E i \in 1..Len(flushes) : BeginFlush(i) \/ RunStep(i) \/ EndFlush(i)
=============================================================================
