------------------------------ MODULE Companions ------------------------------
(* Two extensions of one Pi session that live off its events: the formatter   *)
(* and the indexer.  The session starts, runs turns whose ends are awaited    *)
(* before the next model call, and may be closed at any moment, during a      *)
(* flush or a build too.                                                      *)
EXTENDS Autoformat, Reindexer

CONSTANTS Layers,     \* pairs of config files <<global, project>>
          Results,    \* tool results
          Touches,    \* spellings other extensions put on the bus
          MaxEvents   \* bound: tool results and touches of a session

VARIABLES phase,      \* of the host
          layers,     \* the config files of this session
          events      \* counted against MaxEvents

vars == <<phase, layers, events, formatVars, indexVars>>

NoLayers == <<None, None>>
Init ==
  /\ FormatInit /\ IndexInit
  /\ phase = "down" /\ layers = NoLayers /\ events = 0

SessionStart(l, found, exists, onStartup) ==
  /\ phase = "down" /\ phase' = "idle" /\ events' = 0 /\ layers' = l
  /\ LoadSession(l[1], l[2])
  /\ StartIndexing(found, exists, onStartup)

Occurs == events < MaxEvents /\ events' = events + 1
ToolResult(r) ==
  /\ phase = "turn" /\ Occurs
  /\ RecordToolResult(r) /\ EditSeen(r)
  /\ UNCHANGED <<phase, layers>>
Touch(spelling) ==
  /\ Occurs /\ BusTouch(spelling)
  /\ UNCHANGED <<phase, layers, indexVars>>

Proceed(from, to) == phase = from /\ phase' = to /\ UNCHANGED <<layers, events, indexVars>>
AgentStarts == Proceed("idle", "turn") /\ UNCHANGED formatVars
TurnEnds == Proceed("turn", "turnEnd") /\ QueueFlush("turn")
NextTurn == Proceed("turnEnd", "turn") /\ ~Awaiting("turn") /\ UNCHANGED formatVars
AgentEnds == Proceed("turnEnd", "agentEnd") /\ ~Awaiting("turn") /\ QueueFlush("agent")
AgentIdle == Proceed("agentEnd", "idle") /\ ~Awaiting("agent") /\ UNCHANGED formatVars
(* (A bug: the session is closed without a last flush.)                       *)
QuitUnflushed ==
  /\ phase \in {"idle", "turn", "turnEnd", "agentEnd"}
  /\ Proceed(phase, "closing") /\ Closed /\ UNCHANGED <<cache, flushes, written>>
Quit ==
  /\ phase \in {"idle", "turn", "turnEnd", "agentEnd"}
  /\ Proceed(phase, "closing") /\ QueueFlush("shutdown")
SameHost == UNCHANGED <<phase, layers, events>>
Flush == FlushStep /\ SameHost /\ UNCHANGED indexVars
Index == IndexStep /\ SameHost /\ UNCHANGED formatVars
Command == phase \notin {"down", "closing"} /\ ReindexCommand /\ SameHost /\ UNCHANGED formatVars
CloseIndex == phase = "closing" /\ ShutDown /\ SameHost /\ UNCHANGED formatVars
SessionEnds ==
  /\ phase = "closing" /\ ~Up /\ ~reindexer
  /\ phase' = "down" /\ layers' = NoLayers /\ events' = 0
  /\ UNCHANGED <<formatVars, indexVars>>

Next ==
  \/ \E l \in Layers, found, exists, onStartup \in BOOLEAN :
       SessionStart(l, found, exists, onStartup)
  \/ \E r \in Results : ToolResult(r)
  \/ \E s \in Touches : Touch(s)
  \/ AgentStarts \/ TurnEnds \/ NextTurn \/ AgentEnds \/ AgentIdle \/ Quit
  \/ Flush \/ Index \/ Command \/ CloseIndex \/ SessionEnds

(* A build ends within its timeout, and a timer fires.                        *)
Spec == Init /\ [][Next]_vars
FairSpec == Spec /\ WF_vars(Index)

-----------------------------------------------------------------------------
(* What the config files say, read without the loader.                        *)
Object(file, key) ==
  IF file # Unreadable /\ key \in DOMAIN file /\ file[key] # Bad THEN file[key] ELSE None
Declares(file, name) ==
  LET object == Object(file, "formatters")
  IN  /\ name \in DOMAIN object /\ object[name] # Bad
      /\ "command" \in DOMAIN object[name] /\ Words(object[name].command)
      /\ "$FILE" \notin ToSet(object[name].command)
Knows(file, name) ==
  name \in Builtins \cup {"prettier", "markdownlint-cli2"} \/ Declares(file, name)
SoundStep(file, step) ==
  /\ step.kind = "single" \/ (step.kind = "fallback" /\ ~step.extra)
  /\ Words(step.names) /\ \A n \in ToSet(step.names) : Knows(file, n)
SoundChain(file, key) ==
  LET object == Object(file, "chains")
  IN  /\ key \in ChainKeys \cap DOMAIN object /\ object[key] \notin {Bad, <<>>}
      /\ \A i \in 1..Len(object[key]) : SoundStep(file, object[key][i])
DueSteps(key, l) ==
  CASE SoundChain(l[2], key) -> l[2].chains[key]
    [] ~SoundChain(l[2], key) /\ SoundChain(l[1], key) -> l[1].chains[key]
    [] OTHER -> <<>>
Disables(file, name) ==
  LET definition == file.formatters[name]
  IN  Declares(file, name) /\ "disabled" \in DOMAIN definition /\ definition.disabled = TRUE
Disabled(name, l) ==
  IF Declares(l[2], name) THEN Disables(l[2], name) ELSE Disables(l[1], name)
DueOn(file, wildcard) == DueSteps(IF wildcard THEN "*" ELSE ExtOf[file], layers)

(* A parsed chain is an array of steps that list names, and a step that is a  *)
(* string names one.                                                          *)
ChainsOf(file) ==
  {Object(file, "chains")[key] : key \in DOMAIN Object(file, "chains")} \ {Bad}
ASSUME LayersAssumption ==
  \A l \in Layers : \A file \in {l[1], l[2]} : \A chain \in ChainsOf(file) :
    /\ chain \in Seq(ToSet(chain))
    /\ \A i \in DOMAIN chain :
         /\ chain[i].names \in Seq(ToSet(chain[i].names))
         /\ chain[i].kind = "single" => DOMAIN chain[i].names = {1}

(* The tool results of a session are ones whose files are detected as they    *)
(* were written, wherever detection looks; what it makes of a command is      *)
(* ShellMutations.                                                            *)
Loaded(l) == LoadAutoformatConfig(l[1], l[2])
ASSUME DetectionAssumption ==
  \A l \in Layers : \A r \in Results : ~r.error =>
    LET found == Candidates(Loaded(l), r)
        Scoped(files) == {f \in files : InScope(f, Loaded(l))}
    IN  /\ found \in Seq(DOMAIN PathOf \cup {Blank})
        /\ Scoped({PathOf[s] : s \in ToSet(found) \ {Blank}}) =
             IF Detects(Loaded(l), r) THEN Scoped(r.truth) ELSE {}
ASSUME TouchAssumption == Touches \subseteq DOMAIN PathOf \ {Blank}

(* A formatter runs on a file only if the file was reported written and the   *)
(* chain for it, in the project's file or else in the global one, names the   *)
(* formatter, and no file has disabled it: a broken entry of the config costs *)
(* itself, never another layer's.                                             *)
OnlyConfiguredRuns ==
  \A i \in 1..Len(flushes) : \A j \in 1..Len(flushes[i].log) :
    LET run == flushes[i].log[j]
    IN  /\ run.files \subseteq written /\ ~Disabled(run.name, layers)
        /\ \A file \in run.files :
             /\ run.step \in 1..Len(DueOn(file, run.wildcard))
             /\ run.name \in ToSet(DueOn(file, run.wildcard)[run.step].names)

(* Each file of a flush goes through its chains once: of each step at most    *)
(* one formatter runs on it, and an enabled formatter named alone does,       *)
(* unless a dispatcher of an earlier step has claimed the file; nothing else  *)
(* touches a file that was claimed, and no two flushes hold one at a time.    *)
RunsOn(f, file, wildcard, step) ==
  {j \in 1..Len(f.log) : /\ f.log[j].wildcard = wildcard /\ f.log[j].step = step
                         /\ file \in f.log[j].files}
ClaimedBefore(f, file, wildcard, step) ==
  \E j \in 1..Len(f.log) :
    /\ file \in f.log[j].handled
    /\ \/ f.log[j].wildcard /\ ~wildcard
       \/ f.log[j].wildcard = wildcard /\ f.log[j].step < step
Sure(step) ==
  step.kind = "single" /\ ~Disabled(step.names[1], layers) /\ step.names[1] \notin Builtins
DispatchIsExact ==
  /\ \A i, j \in 1..Len(flushes) :
       i # j => flushes[i].working \cap flushes[j].working = {}
  /\ \A i \in 1..Len(flushes) :
       LET f == flushes[i]
       IN  /\ \A j, k \in 1..Len(f.log) : j < k => f.log[j].handled \cap f.log[k].files = {}
           /\ Formatted(f) =>
                \A file \in ToSet(f.taken), wildcard \in BOOLEAN :
                  \A s \in 1..Len(DueOn(file, wildcard)) :
                    /\ Cardinality(RunsOn(f, file, wildcard, s)) <= 1
                    /\ Sure(DueOn(file, wildcard)[s]) =>
                         \/ RunsOn(f, file, wildcard, s) # {}
                         \/ ClaimedBefore(f, file, wildcard, s)

(* A file written in the session is formatted before the session is gone,     *)
(* unless it was reported while the last flush was running.                   *)
NothingWrittenIsLost == [][Up /\ ~Up' => owed \subseteq late]_vars

(* An edit made with an index is followed by a build that begins after it,    *)
(* during a build or a command's too, unless the session is closed before the *)
(* build begins: shutdown() drops a pending timer and a queued request.       *)
EditsAreIndexed == unindexed ~> ~unindexed \/ isShutdown

(* pi-colgrep/docs/architecture/architecture.md:123.                          *)
OneBuildAtATime == Cardinality(builds) <= 1
=============================================================================
