------------------------------ MODULE AgentTypes ------------------------------
(***************************************************************************)
(* Which agent a spawn runs and under which limits: the agent files        *)
(* (config/custom-agents.ts), the registry over them                       *)
(* (config/agent-types.ts), the merge of a call with its agent file        *)
(* (config/invocation-config.ts, tools/spawn-config.ts) and the rejection  *)
(* every front door shares (SubagentManager.resolveSpawn). A directory of  *)
(* agent files is a function on the names it holds.                        *)
(***************************************************************************)
EXTENDS SubagentSettings

CONSTANT Lowercase(_)   \* of an agent's name

GeneralPurpose == "general-purpose"
DefaultAgentNames == {GeneralPurpose, "Explore", "Plan"}

LockableFields == {"model", "thinking", "max_turns", "inherit_context", "run_in_background"}

Unlocked == [all |-> FALSE, fields |-> {}]

DefaultAgent == [maxTurns |-> Absent, lock |-> Unlocked, enabled |-> TRUE]

-----------------------------------------------------------------------------
(* Agent files.                                                            *)

(* `locked: true` or a list, of which names that lock nothing are dropped. *)
LockDeclaration(locked) == [all |-> locked.flag, fields |-> locked.names \cap LockableFields]

NonNegative(n) == IF n >= 0 THEN n ELSE Absent

AgentOf(file) ==
  [maxTurns |-> NonNegative(file.maxTurns),
   lock     |-> LockDeclaration(file.locked),
   enabled  |-> file.enabled]

(* loadFromDir(): a file that cannot be read is skipped.                   *)
LoadFromDir(dir) ==
  [name \in {n \in DOMAIN dir : dir[n].readable} |-> AgentOf(dir[name])]

(* reload(): the defaults, the global directory, the project's; the later  *)
(* one wins a name, which keeps the place it first took.                   *)
Reload(dirs) ==
  LET defaults == [name \in DefaultAgentNames |-> DefaultAgent]
      global   == LoadFromDir(dirs.global)
      project  == LoadFromDir(dirs.project)
  IN [agents |-> Spread(Spread(defaults, global), project),
      order  |-> <<DOMAIN defaults, DOMAIN global, DOMAIN project>>]

-----------------------------------------------------------------------------
(* The registry.                                                           *)

Unknown == "no such agent type"

SameLetters(name, keys) == {k \in keys : Lowercase(k) = Lowercase(name)}

(* resolveKey(): the name itself, or the first one in the same letters.    *)
ResolveType(registry, name) ==
  LET layers == {i \in 1..3 : SameLetters(name, registry.order[i]) # {}}
      first  == CHOOSE i \in layers : \A j \in layers : i <= j
  IN IF name \in DOMAIN registry.agents THEN name
     ELSE IF layers = {} THEN Unknown
     ELSE CHOOSE k \in SameLetters(name, registry.order[first]) : TRUE

(* An unknown type is general-purpose, which is always there.              *)
Canonical(registry, name) ==
  LET key == ResolveType(registry, name) IN IF key = Unknown THEN GeneralPurpose ELSE key

ResolveAgentConfig(registry, name) == registry.agents[Canonical(registry, name)]

(* The tool door resolves the type before it calls the manager; another    *)
(* extension names it as it likes.                                         *)
NamedToManager(registry, spawn) ==
  IF spawn.door = "tool" THEN Canonical(registry, spawn.type) ELSE spawn.type

(* resolveSpawn(): a known type that is disabled is refused.               *)
Refused(registry, spawn) ==
  LET key == ResolveType(registry, NamedToManager(registry, spawn))
  IN key # Unknown /\ ~registry.agents[key].enabled

-----------------------------------------------------------------------------
(* The limits of a spawn.                                                  *)

(* `true` locks what the file sets, a list what it names.                  *)
IsLocked(lock, field, agentValue) ==
  \/ field \in lock.fields
  \/ lock.all /\ agentValue # Absent

(* The caller wins unless the file locks the field, set or not.            *)
ResolveField(lock, field, agentValue, callerValue) ==
  IF ~IsLocked(lock, field, agentValue) /\ callerValue # Absent
  THEN callerValue
  ELSE agentValue

(* resolveSpawnConfig(): what the tool door hands on; only it knows locks. *)
EffectiveMaxTurns(config, callerMaxTurns, settings) ==
  NormalizeMaxTurns(OrElse(ResolveField(config.lock, "max_turns", config.maxTurns, callerMaxTurns),
                           settings.numbers.defaultMaxTurns))

Requested(config, spawn, settings) ==
  IF spawn.door = "tool"
  THEN EffectiveMaxTurns(config, spawn.maxTurns, settings)
  ELSE spawn.maxTurns

(* The settings and the agent's own limit join as the session is created.  *)
SpawnLimits(registry, spawn, settings) ==
  LET chosen == ResolveAgentConfig(registry, NamedToManager(registry, spawn))
  IN ResolveTurnLimits(Requested(chosen, spawn, settings), chosen.maxTurns,
                       settings.numbers.defaultMaxTurns, settings.numbers.wrapUpTurns)
=============================================================================
