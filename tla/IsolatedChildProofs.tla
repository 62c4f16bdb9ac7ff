-------------------------- MODULE IsolatedChildProofs --------------------------
(***************************************************************************)
(* A child's turns, failures, teardown and worktree, for every spawn, any  *)
(* number of runs and turns, of callers of dispose() and of children.      *)
(*                                                                         *)
(* The invariant comes in four parts, each inductive on top of the types:  *)
(* the budget, the failure, the teardown and the worktree.                 *)
(***************************************************************************)
EXTENDS IsolatedChild, AgentTypes, TLAPS, FiniteSetTheorems, SequenceTheorems

-----------------------------------------------------------------------------
(* The limits a spawn comes with: what a saved settings file reads back as,   *)
(* and what the limits of a run may be, for every settings file, agent file and *)
(* call.                                                                      *)

(* What the manager may hold while every number is one a file may hold.    *)
InRange(key, n) == n \in Int /\ (n = Absent => key = "defaultMaxTurns")
                   /\ (n # Absent => Floor(key) <= n /\ n <= Ceiling(key) /\ n = Normalized(key, n))

Memory(m) ==
  /\ m = [numbers |-> m.numbers, switches |-> m.switches,
          excluded |-> m.excluded, inherits |-> m.inherits]
  /\ m.numbers = [k \in NumberKeys |-> m.numbers[k]]
  /\ m.switches = [k \in SwitchKeys |-> m.switches[k]]
  /\ \A k \in NumberKeys : InRange(k, m.numbers[k])
  /\ Blank \notin m.excluded
  /\ m.inherits = [p \in DOMAIN m.inherits |-> m.inherits[p]]
  /\ KnownStrategies(m.inherits) = DOMAIN m.inherits

(* What a file may hold, the setter leaves in range.                       *)
LEMMA NormalizedIsInRange ==
  ASSUME NEW k \in NumberKeys, NEW n \in Int, Floor(k) <= n, n <= Ceiling(k)
  PROVE  InRange(k, Normalized(k, n))
<1>1. CASE k = "defaultMaxTurns"
  <2>1. Floor(k) = 0 /\ Ceiling(k) = 10000
    BY <1>1 DEF Floor, Ceiling
  <2>2. \/ NormalizeMaxTurns(n) = Absent
        \/ /\ NormalizeMaxTurns(n) \in 2..10000
           /\ NormalizeMaxTurns(NormalizeMaxTurns(n)) = NormalizeMaxTurns(n)
    BY <2>1 DEF NormalizeMaxTurns, Larger, MinMaxTurns, Absent
  <2>3. \A i : Normalized(k, i) = NormalizeMaxTurns(i)
    BY <1>1 DEF Normalized
  <2> DEFINE t == Normalized(k, n)
  <2>4. t = -1 \/ (t \in 2..10000 /\ Normalized(k, t) = t)
    BY <2>2, <2>3 DEF Absent
  <2> HIDE DEF t
  <2>5. ASSUME t = -1 PROVE InRange(k, t)
    BY <1>1, <2>5 DEF InRange, Absent
  <2>6. ASSUME t \in 2..10000, Normalized(k, t) = t PROVE InRange(k, t)
    <3>1. t \in Int /\ t # -1 /\ 0 <= t /\ t <= 10000
      BY <2>6
    <3> QED
      BY <2>1, <2>6, <3>1 DEF InRange, Absent
  <2> QED
    BY <2>4, <2>5, <2>6 DEF t
<1>2. CASE k \in RetentionKeys
  <2>1. Floor(k) = 1 /\ Ceiling(k) = RetentionMinutesCeiling /\ k # "defaultMaxTurns"
    BY <1>2 DEF Floor, Ceiling, RetentionKeys
  <2>2. Normalized(k, n) = n
    BY <1>2, <2>1 DEF Normalized, Larger, RetentionMinutesCeiling
  <2> QED
    BY <2>1, <2>2 DEF InRange, Absent
<1>3. CASE k \in {"maxConcurrent", "wrapUpTurns"}
  <2>1. Floor(k) = 1 /\ k # "defaultMaxTurns" /\ k \notin RetentionKeys
    BY <1>3 DEF Floor, RetentionKeys
  <2>2. Normalized(k, n) = n
    BY <2>1 DEF Normalized, Larger
  <2> QED
    BY <2>1, <2>2 DEF InRange, Absent
<1> QED
  BY <1>1, <1>2, <1>3 DEF NumberKeys, RetentionKeys

(* Any files, read over the defaults or over what an earlier load left,    *)
(* leave the manager in such a state.                                      *)
THEOREM LoadedSettingsAreInRange ==
  ASSUME NEW old, Memory(old), NEW global, NEW project
  PROVE  Memory(Load(old, global, project))
<1> DEFINE s == LoadSettings(global, project)
           next == Load(old, global, project)
<1>1. \A file : \A k \in DOMAIN Layer(file) :
        \E v : Acceptable(k, v) /\ Layer(file)[k] = Cleaned(k, v)
  BY DEF Layer, Sanitize, NoKeys
<1>2. \A k \in DOMAIN s : \E v : Acceptable(k, v) /\ s[k] = Cleaned(k, v)
  BY <1>1 DEF LoadSettings, Spread
<1>3. \A k \in NumberKeys : InRange(k, next.numbers[k])
  <2> SUFFICES ASSUME NEW k \in NumberKeys PROVE InRange(k, next.numbers[k])
    OBVIOUS
  <2>1. CASE k \notin DOMAIN s
    <3>1. next.numbers[k] = old.numbers[k]
      BY <2>1 DEF Load
    <3> QED
      BY <3>1 DEF Memory
  <2>2. CASE k \in DOMAIN s
    <3>1. k # Packages /\ k # Inheritance /\ k \notin SwitchKeys
      BY DEF NumberKeys, SwitchKeys, Packages, Inheritance
    <3>2. s[k] \in Floor(k)..Ceiling(k)
      BY <1>2, <2>2, <3>1 DEF Acceptable, Cleaned
    <3>3. next.numbers[k] = Normalized(k, s[k])
      BY <2>2 DEF Load
    <3>4. Floor(k) \in Int /\ Ceiling(k) \in Int
      BY DEF Floor, Ceiling, RetentionMinutesCeiling
    <3>5. s[k] \in Int /\ Floor(k) <= s[k] /\ s[k] <= Ceiling(k)
      BY <3>2, <3>4
    <3> QED
      BY <3>3, <3>5, NormalizedIsInRange
  <2> QED
    BY <2>1, <2>2
<1>4. Blank \notin next.excluded
  <2>1. CASE Packages \in DOMAIN s
    <3>1. \A v : Cleaned(Packages, v) = v \ {Blank}
      BY DEF Cleaned
    <3>2. Blank \notin s[Packages]
      BY <1>2, <2>1, <3>1
    <3> QED
      BY <2>1, <3>2 DEF Load
  <2>2. CASE Packages \notin DOMAIN s
    BY <2>2 DEF Load
  <2> QED
    BY <2>1, <2>2
<1>5. /\ next.inherits = [p \in DOMAIN next.inherits |-> next.inherits[p]]
      /\ KnownStrategies(next.inherits) = DOMAIN next.inherits
  <2>1. CASE Inheritance \in DOMAIN s
    <3>1. PICK v : s[Inheritance] = Cleaned(Inheritance, v)
      BY <1>2, <2>1
    <3>2. Cleaned(Inheritance, v) = [p \in KnownStrategies(v) |-> v[p]]
      BY DEF Cleaned, Packages, Inheritance
    <3>3. next.inherits = [p \in KnownStrategies(v) |-> v[p]]
      BY <2>1, <3>1, <3>2 DEF Load
    <3> QED
      BY <3>3 DEF KnownStrategies
  <2>2. CASE Inheritance \notin DOMAIN s
    <3>1. next.inherits = NoKeys
      BY <2>2 DEF Load
    <3> QED
      BY <3>1 DEF KnownStrategies, NoKeys
  <2> QED
    BY <2>1, <2>2
<1>6. /\ next = [numbers |-> next.numbers, switches |-> next.switches,
                  excluded |-> next.excluded, inherits |-> next.inherits]
      /\ next.numbers = [k \in NumberKeys |-> next.numbers[k]]
      /\ next.switches = [k \in SwitchKeys |-> next.switches[k]]
  BY DEF Load
<1> QED
  BY <1>3, <1>4, <1>5, <1>6 DEF Memory

(* The manager's own defaults are such a state to begin with.              *)
LEMMA DefaultsAreInRange == Memory(Defaults)
<1>1. \A k \in NumberKeys : InRange(k, Default(k))
  BY DEF NumberKeys, InRange, Default, Absent, Floor, Ceiling, Normalized, RetentionKeys,
         RetentionMinutesCeiling, Larger, NormalizeMaxTurns, MinMaxTurns
<1> QED
  BY <1>1 DEF Memory, Defaults, NoKeys, KnownStrategies

LEMMA SnapshotDomain ==
  ASSUME NEW m, Memory(m)
  PROVE  DOMAIN Layer(SavedFile(m)) = SnapshotKeys(m)
<1> DEFINE snap == Snapshot(m)
<1>1. DOMAIN snap = SnapshotKeys(m)
  BY DEF Snapshot
<1>2. \A k \in SnapshotKeys(m) : Acceptable(k, snap[k])
  <2> SUFFICES ASSUME NEW k \in SnapshotKeys(m) PROVE Acceptable(k, snap[k])
    OBVIOUS
  <2>1. CASE k \in NumberKeys
    <3>1. snap[k] = IF m.numbers[k] = Absent THEN 0 ELSE m.numbers[k]
      BY <2>1 DEF Snapshot, Written
    <3>2. InRange(k, m.numbers[k])
      BY <2>1 DEF Memory
    <3>3. CASE m.numbers[k] = Absent
      BY <2>1, <3>1, <3>2, <3>3 DEF InRange, Acceptable, Floor, Ceiling
    <3>4. CASE m.numbers[k] # Absent
      <4>1. Floor(k) \in Int /\ Ceiling(k) \in Int
        BY DEF Floor, Ceiling, RetentionMinutesCeiling
      <4> QED
        BY <2>1, <3>1, <3>2, <3>4, <4>1 DEF InRange, Acceptable
    <3> QED
      BY <3>3, <3>4
  <2>2. CASE k \in SwitchKeys
    BY <2>2 DEF Acceptable
  <2>3. CASE k = Packages
    BY <2>3 DEF Acceptable
  <2>4. CASE k = Inheritance /\ DOMAIN m.inherits # {}
    <3>1. snap[k] = m.inherits
      BY <2>4 DEF Snapshot, Written, NumberKeys, SwitchKeys, Packages, Inheritance
    <3> QED
      BY <2>4, <3>1 DEF Acceptable, Memory
  <2> QED
    BY <2>1, <2>2, <2>3, <2>4 DEF SnapshotKeys
<1>3. Layer(SavedFile(m)) = Sanitize(snap)
  BY DEF Layer, SavedFile
<1> QED
  BY <1>1, <1>2, <1>3 DEF Sanitize

(* What the file of a snapshot gives back, key by key.                     *)
LEMMA SnapshotValue ==
  ASSUME NEW m, Memory(m), NEW k \in SnapshotKeys(m)
  PROVE  Layer(SavedFile(m))[k] = Cleaned(k, Snapshot(m)[k])
<1>1. k \in DOMAIN Layer(SavedFile(m))
  BY SnapshotDomain
<1> QED
  BY <1>1 DEF Layer, SavedFile, Sanitize

(* A setting the manager saves is the setting the next session loads, over *)
(* any global file and whatever it held before: saveAndNotify() then       *)
(* load(). The two hand-edited keys come back when they hold something; an *)
(* empty one is not written, and a global file may fill it again.          *)
THEOREM SavedSettingsReload ==
  ASSUME NEW m, Memory(m), NEW old, NEW global
  PROVE  LET next == Load(old, global, SavedFile(m))
         IN /\ next.numbers = m.numbers
            /\ next.switches = m.switches
            /\ m.excluded # {} => next.excluded = m.excluded
            /\ DOMAIN m.inherits # {} => next.inherits = m.inherits
<1> DEFINE s == LoadSettings(global, SavedFile(m))
<1> DEFINE next == Load(old, global, SavedFile(m))
<1>1. \A k \in SnapshotKeys(m) : k \in DOMAIN s /\ s[k] = Cleaned(k, Written(m, k))
  <2> TAKE k \in SnapshotKeys(m)
  <2>1. k \in DOMAIN Layer(SavedFile(m))
    BY SnapshotDomain
  <2>2. k \in DOMAIN s /\ s[k] = Layer(SavedFile(m))[k]
    BY <2>1 DEF LoadSettings, Spread
  <2> QED
    BY <2>2, SnapshotValue DEF Snapshot
<1>2. next.numbers = m.numbers
  <2>1. \A k \in NumberKeys : k \in DOMAIN s /\ Normalized(k, s[k]) = m.numbers[k]
    <3> TAKE k \in NumberKeys
    <3>1. k \in DOMAIN s /\ s[k] = Cleaned(k, Written(m, k))
      BY <1>1 DEF SnapshotKeys
    <3>2. s[k] = IF m.numbers[k] = Absent THEN 0 ELSE m.numbers[k]
      BY <3>1 DEF Cleaned, Written, NumberKeys, Packages, Inheritance
    <3>3. InRange(k, m.numbers[k])
      BY DEF Memory
    <3>4. CASE m.numbers[k] = Absent
      <4>1. k = "defaultMaxTurns"
        BY <3>3, <3>4 DEF InRange
      <4>2. s[k] = 0
        BY <3>2, <3>4
      <4>3. Normalized(k, 0) = Absent
        BY <4>1 DEF Normalized, NormalizeMaxTurns, Absent
      <4> QED
        BY <3>1, <3>4, <4>2, <4>3
    <3>5. CASE m.numbers[k] # Absent
      BY <3>1, <3>2, <3>3, <3>5 DEF InRange
    <3> QED
      BY <3>4, <3>5
  <2>2. next.numbers = [k \in NumberKeys |-> m.numbers[k]]
    BY <2>1 DEF Load
  <2> QED
    BY <2>2 DEF Memory
<1>3. next.switches = m.switches
  <2>1. \A k \in SwitchKeys : k \in DOMAIN s /\ s[k] = m.switches[k]
    <3> TAKE k \in SwitchKeys
    <3>1. k \in DOMAIN s /\ s[k] = Cleaned(k, Written(m, k))
      BY <1>1 DEF SnapshotKeys
    <3>2. k \notin NumberKeys /\ k # Packages /\ k # Inheritance
      BY DEF SwitchKeys, NumberKeys, Packages, Inheritance
    <3> QED
      BY <3>1, <3>2 DEF Cleaned, Written
  <2>2. next.switches = [k \in SwitchKeys |-> m.switches[k]]
    BY <2>1 DEF Load
  <2> QED
    BY <2>2 DEF Memory
<1>4. ASSUME m.excluded # {} PROVE next.excluded = m.excluded
  <2>1. Packages \in DOMAIN s /\ s[Packages] = Cleaned(Packages, Written(m, Packages))
    BY <1>1, <1>4 DEF SnapshotKeys
  <2>2. Written(m, Packages) = m.excluded
    BY DEF Written, NumberKeys, SwitchKeys, Packages
  <2>3. Cleaned(Packages, m.excluded) = m.excluded
    <3>1. m.excluded \ {Blank} = m.excluded
      BY DEF Memory
    <3> QED
      BY <3>1 DEF Cleaned
  <2>4. next.excluded = s[Packages]
    BY <2>1 DEF Load
  <2> QED
    BY <2>1, <2>2, <2>3, <2>4
<1>5. ASSUME DOMAIN m.inherits # {} PROVE next.inherits = m.inherits
  <2>1. Inheritance \in DOMAIN s /\ s[Inheritance] = Cleaned(Inheritance, Written(m, Inheritance))
    BY <1>1, <1>5 DEF SnapshotKeys
  <2>2. Written(m, Inheritance) = m.inherits
    BY DEF Written, NumberKeys, SwitchKeys, Packages, Inheritance
  <2>3. Cleaned(Inheritance, m.inherits) = m.inherits
    BY DEF Cleaned, Memory, Packages, Inheritance
  <2>4. next.inherits = s[Inheritance]
    BY <2>1 DEF Load
  <2> QED
    BY <2>1, <2>2, <2>3, <2>4
<1> QED
  BY <1>2, <1>3, <1>4, <1>5

(* A limit the agent file locks is the limit of the run, whatever the call *)
(* asks for and whatever the default: two resolutions, in the tool and as  *)
(* the session is created, agree on it, an explicit unlimited included.    *)
THEOREM LockedLimitHolds ==
  ASSUME NEW registry, NEW spawn, NEW settings,
         spawn.door = "tool",
         ResolveAgentConfig(registry, NamedToManager(registry, spawn)).maxTurns \in Nat,
         "max_turns" \in ResolveAgentConfig(registry, NamedToManager(registry, spawn)).lock.fields
  PROVE  SpawnLimits(registry, spawn, settings).maxTurns
           = NormalizeMaxTurns(ResolveAgentConfig(registry, NamedToManager(registry, spawn)).maxTurns)
<1> DEFINE chosen == ResolveAgentConfig(registry, NamedToManager(registry, spawn))
           own == chosen.maxTurns
<1>1. ResolveField(chosen.lock, "max_turns", own, spawn.maxTurns) = own
  BY DEF ResolveField, IsLocked
<1>2. own # Absent
  BY DEF Absent
<1>3. Requested(chosen, spawn, settings) = NormalizeMaxTurns(own)
  BY <1>1, <1>2 DEF Requested, EffectiveMaxTurns, OrElse
<1>4. NormalizeMaxTurns(OrElse(OrElse(NormalizeMaxTurns(own), own), settings.numbers.defaultMaxTurns))
        = NormalizeMaxTurns(own)
  BY <1>2 DEF OrElse, NormalizeMaxTurns, Larger, MinMaxTurns, Absent
<1> QED
  BY <1>3, <1>4 DEF SpawnLimits, ResolveTurnLimits

(* Whatever the files and the call say, a run that has a limit has a turn  *)
(* to work and a turn to answer.                                           *)
THEOREM LimitsLeaveATurnToAnswer ==
  ASSUME NEW registry, NEW spawn, NEW settings,
         spawn.maxTurns \in Int, settings.numbers.defaultMaxTurns \in Int,
         ResolveAgentConfig(registry, NamedToManager(registry, spawn)).maxTurns \in Int
  PROVE  \/ SpawnLimits(registry, spawn, settings).maxTurns = Absent
         \/ /\ SpawnLimits(registry, spawn, settings).maxTurns \in Nat
            /\ SpawnLimits(registry, spawn, settings).maxTurns >= MinMaxTurns
<1> DEFINE chosen == ResolveAgentConfig(registry, NamedToManager(registry, spawn))
<1>1. \A n \in Int : NormalizeMaxTurns(n) \in Int
                     /\ (NormalizeMaxTurns(n) = Absent \/ NormalizeMaxTurns(n) >= MinMaxTurns)
  BY DEF NormalizeMaxTurns, Larger, MinMaxTurns, Absent
<1>2. \A a, b \in Int : OrElse(a, b) \in Int
  BY DEF OrElse
<1>3. ResolveField(chosen.lock, "max_turns", chosen.maxTurns, spawn.maxTurns) \in Int
  BY DEF ResolveField
<1>4. Requested(chosen, spawn, settings) \in Int
  BY <1>1, <1>2, <1>3 DEF Requested, EffectiveMaxTurns
<1>5. \A n \in Int : n >= MinMaxTurns => n \in Nat
  BY DEF MinMaxTurns
<1> QED
  BY <1>1, <1>2, <1>4, <1>5 DEF SpawnLimits, ResolveTurnLimits

-----------------------------------------------------------------------------
(* The types of a child.                                                      *)

Trees == [tree : {"none", "present", "gone"}, dirty : BOOLEAN, ahead : BOOLEAN,
          branch : BOOLEAN, work : {"none", "uncommitted", "committed"}, astray : BOOLEAN]

Events == {"spawning", "session-created", "bound", "completed", "disposed"}

Limits == [maxTurns : {Absent} \cup {n \in Nat : n >= MinMaxTurns}, wrapUpTurns : Int]
Trackers == [maxTurns : Int, warnAt : Int, used : Nat, phase : {"within", "warned", "exhausted"}]

BudgetTypes ==
  /\ limits \in Limits
  /\ tracker \in Trackers /\ tracker.maxTurns = limits.maxTurns
  /\ spent \in Nat
  /\ stopping \in BOOLEAN

Types ==
  /\ BudgetTypes
  /\ published \in Seq(Events)
  /\ disposing \in [Caller -> {"no", "waiting", "back"}]
  /\ disposed \in BOOLEAN
  /\ wt \in [Child -> Trees]

(* The tracker counts the turns that ended well. Once it is exhausted the  *)
(* loop has been aborted, and a turn that may still end well began below   *)
(* the limit.                                                              *)
BudgetInv ==
  /\ tracker.used = spent
  /\ tracker.phase = "exhausted" => stopping
  /\ loop = "turn" => limits.maxTurns = Absent \/ spent < limits.maxTurns
  /\ TurnsWithinBudget

(* Until the session is disposed of the collector agrees with the last     *)
(* response, and a run that is under way has no outcome.                   *)
FailureInv ==
  /\ loop # "idle" => run = "prompting"
  /\ run = "prompting" => outcome = "none"
  /\ ~disposed => (failure = "error" <=> last = "error")
  /\ NoFailurePassesAsAnswer

(* Somebody answers for every announcement still to come: the one caller   *)
(* that waits, or the session's own creation.                              *)
TeardownInv ==
  /\ stage \in {"binding", "unbound", "bound"} => Published("session-created")
  /\ \A i, j \in 1 .. Len(published) :
       published[i] = "disposed" /\ published[j] = "disposed" => i = j
  /\ Published("disposed") => disposed /\ Published("session-created") /\ Awaited
  /\ \A k \in Caller : disposing[k] = "waiting" => disposed /\ ~Published("disposed")
  /\ \A k, l \in Caller : disposing[k] = "waiting" /\ disposing[l] = "waiting" => k = l
  /\ stage # "bound" => \A k \in Caller : disposing[k] # "waiting"
  /\ stage = "unbound" => disposed /\ ~Published("disposed")
  /\ stage \in {"new", "preparing", "binding"} => ~disposed

(* What a child left uncommitted is in its worktree or on a branch; while  *)
(* it works there a cleanup would find it, and only its own bracket holds  *)
(* it from the scan.                                                       *)
WorktreeInv ==
  /\ \A c \in Child : wt[c].work = "uncommitted" =>
       wt[c].branch \/ wt[c].tree = "present" \/ c \in discarded
  /\ bracket = "prepared" /\ wt[agent].work = "uncommitted" =>
       wt[agent].dirty \/ wt[agent].branch \/ agent \in discarded
  /\ bracket = "none" /\ up => wt[agent].work # "uncommitted" /\ wt[agent].tree # "present"
  /\ live \subseteq Held

(* The inductive invariant. *)
IsolatedInv == Types /\ BudgetInv /\ FailureInv /\ TeardownInv /\ WorktreeInv

-----------------------------------------------------------------------------
(* The limits of a spawn. *)

(* Every agent type names a number of turns, the one a spawn resolves to    *)
(* included: a name is resolved to one that is there.                      *)
LEMMA ResolvedTurns ==
  ASSUME NEW spawn \in SpawnChoices, NEW name
  PROVE  ResolveAgentConfig(RegistryOf(spawn), name).maxTurns \in Int
<1> DEFINE defaults == [n \in DefaultAgentNames |-> DefaultAgent]
           global == LoadFromDir(spawn.dirs.global)
           project == LoadFromDir(spawn.dirs.project)
           registry == RegistryOf(spawn)
           key == ResolveType(registry, name)
<1>1. /\ registry.agents = Spread(Spread(defaults, global), project)
      /\ registry.order = <<DOMAIN defaults, DOMAIN global, DOMAIN project>>
  BY DEF RegistryOf, Reload
<1>2. \A n \in DOMAIN defaults : defaults[n].maxTurns \in Int
  BY DEF DefaultAgent, Absent
<1>3. \A n \in DOMAIN global : global[n].maxTurns \in Int
  BY SpawnChoicesAssumption DEF LoadFromDir, AgentOf, NonNegative, Absent
<1>4. \A n \in DOMAIN project : project[n].maxTurns \in Int
  BY SpawnChoicesAssumption DEF LoadFromDir, AgentOf, NonNegative, Absent
<1>5. GeneralPurpose \in DOMAIN defaults
  BY DEF DefaultAgentNames
<1> HIDE DEF defaults, global, project, registry
<1>6. DOMAIN registry.agents = DOMAIN defaults \cup DOMAIN global \cup DOMAIN project
  BY <1>1 DEF Spread
<1>7. \A n \in DOMAIN registry.agents : registry.agents[n].maxTurns \in Int
  BY <1>1, <1>2, <1>3, <1>4 DEF Spread
<1>8. key = Unknown \/ key \in DOMAIN registry.agents
  <2> DEFINE layers == {i \in 1..3 : SameLetters(name, registry.order[i]) # {}}
             first == CHOOSE i \in layers : \A j \in layers : i <= j
  <2>1. \A i \in 1..3 : registry.order[i] \subseteq DOMAIN registry.agents
    BY <1>1, <1>6
  <2>2. ASSUME layers # {} PROVE first \in layers
    <3>1. \E i \in layers : \A j \in layers : i <= j
      <4>1. CASE 1 \in layers
        BY <4>1
      <4>2. CASE 1 \notin layers /\ 2 \in layers
        BY <4>2
      <4>3. CASE 1 \notin layers /\ 2 \notin layers
        BY <4>3, <2>2
      <4>4. QED
        BY <4>1, <4>2, <4>3
    <3>2. QED
      BY <3>1
  <2>3. ASSUME layers # {} PROVE (CHOOSE k \in SameLetters(name, registry.order[first]) : TRUE) \in DOMAIN registry.agents
    <3>1. first \in 1..3 /\ SameLetters(name, registry.order[first]) # {}
      BY <2>2, <2>3
    <3> HIDE DEF first
    <3>2. SameLetters(name, registry.order[first]) \subseteq DOMAIN registry.agents
      BY <3>1, <2>1 DEF SameLetters
    <3>3. QED
      BY <3>1, <3>2
  <2>4. key = IF name \in DOMAIN registry.agents THEN name
              ELSE IF layers = {} THEN Unknown
              ELSE CHOOSE k \in SameLetters(name, registry.order[first]) : TRUE
    BY DEF ResolveType
  <2> HIDE DEF key, layers, first
  <2>5. QED
    BY <2>3, <2>4
<1>9. Canonical(registry, name) \in DOMAIN registry.agents
  BY <1>5, <1>6, <1>8 DEF Canonical
<1>10. QED
  BY <1>7, <1>9 DEF ResolveAgentConfig, registry

(* The dialog and the files leave numbers.                                 *)
LEMMA SettingsTurns ==
  ASSUME NEW spawn \in SpawnChoices, NEW key \in NumberKeys
  PROVE  SettingsOf(spawn).numbers[key] \in Int
<1> DEFINE loaded == Load(Defaults, spawn.global, spawn.project)
<1>1. Memory(loaded)
  BY DefaultsAreInRange, LoadedSettingsAreInRange
<1> HIDE DEF loaded
<1>2. loaded.numbers[key] \in Int /\ DOMAIN loaded.numbers = NumberKeys
  BY <1>1 DEF Memory, InRange
<1>3. \A k \in NumberKeys : Normalized(k, spawn.edit.number) \in Int
  BY SpawnChoicesAssumption
     DEF Normalized, NormalizeMaxTurns, Larger, MinMaxTurns, Absent, RetentionMinutesCeiling
<1>4. Edited(loaded, spawn.edit).numbers[key] \in Int
  <2>1. CASE spawn.edit.key \in NumberKeys
    <3>1. Edited(loaded, spawn.edit) \in
            {loaded, [loaded EXCEPT !.numbers[spawn.edit.key] = Normalized(spawn.edit.key, spawn.edit.number)]}
      BY <2>1 DEF Edited, Enter, Apply, NumberKeys, SwitchKeys
    <3>2. QED
      BY <1>1, <1>2, <1>3, <2>1, <3>1 DEF Memory
  <2>2. CASE spawn.edit.key \notin NumberKeys
    <3>1. Edited(loaded, spawn.edit).numbers = loaded.numbers
      BY <1>1, <2>2 DEF Edited, Toggle, Memory
    <3>2. QED
      BY <1>2, <3>1
  <2>3. QED
    BY <2>1, <2>2
<1>5. QED
  BY <1>4 DEF SettingsOf, loaded

(* A run that has a limit has a turn to work and a turn to answer.         *)
LEMMA LimitsTyped ==
  ASSUME ChildInit
  PROVE  limits \in Limits
<1>1. PICK spawn \in SpawnChoices : limits = LimitsOf(spawn)
  BY DEF ChildInit
<1>2. spawn.maxTurns \in Int
  BY SpawnChoicesAssumption
<1>3. limits.maxTurns = Absent \/ (limits.maxTurns \in Nat /\ limits.maxTurns >= MinMaxTurns)
  <2>1. SettingsOf(spawn).numbers.defaultMaxTurns \in Int
    BY SettingsTurns DEF NumberKeys
  <2>2. QED
    BY <1>1, <1>2, <2>1, ResolvedTurns, LimitsLeaveATurnToAnswer DEF LimitsOf
<1>4. limits = [maxTurns |-> limits.maxTurns, wrapUpTurns |-> limits.wrapUpTurns]
      /\ limits.wrapUpTurns = OrElse(SettingsOf(spawn).numbers.wrapUpTurns, DefaultWrapUpTurns)
  BY <1>1 DEF LimitsOf, SpawnLimits, ResolveTurnLimits
<1>5. limits.wrapUpTurns \in Int
  <2>1. SettingsOf(spawn).numbers.wrapUpTurns \in Int
    BY SettingsTurns DEF NumberKeys
  <2>2. QED
    BY <1>4, <2>1 DEF OrElse, DefaultWrapUpTurns
<1>6. QED
  BY <1>3, <1>4, <1>5 DEF Limits

(* A fresh tracker has used nothing.                                       *)
LEMMA TrackerTyped ==
  ASSUME NEW l \in Limits, NEW t \in {Tracker(l), Opened(Tracker(l))}
  PROVE  t \in Trackers /\ t.maxTurns = l.maxTurns /\ t.used = 0 /\ t.phase # "exhausted"
<1>1. l.maxTurns \in Int /\ l.wrapUpTurns \in Int
  BY DEF Limits, Absent
<1>2. /\ Tracker(l) \in Trackers /\ Tracker(l).maxTurns = l.maxTurns
      /\ Tracker(l).used = 0 /\ Tracker(l).phase = "within"
  BY <1>1 DEF Tracker, Trackers, Larger, Absent
<1> HIDE DEF Tracker
<1>3. QED
  BY <1>2 DEF Opened, Trackers

-----------------------------------------------------------------------------
(* At first there is no session and no worktree.                           *)
LEMMA IsolatedInitially == Init => IsolatedInv
<1> SUFFICES ASSUME Init PROVE IsolatedInv
  OBVIOUS
<1> USE DEF Init, ChildInit, NoChild
<1>1. limits \in Limits
  BY LimitsTyped
<1>2. tracker \in Trackers /\ tracker.maxTurns = limits.maxTurns /\ tracker.used = 0 /\ tracker.phase # "exhausted"
  BY <1>1, TrackerTyped
<1>3. wt = [c \in Child |-> NoWorktree] /\ live = {} /\ discarded = {} /\ NoWorktree \in Trees
  BY DEF WorktreeInit, NoWorktree, Trees
<1>4. published = <<>> /\ Len(published) = 0
  OBVIOUS
<1>5. Types
  <2>1. BudgetTypes
    BY <1>1, <1>2 DEF BudgetTypes
  <2>2. published \in Seq(Events)
    BY <1>4
  <2>3. disposing \in [Caller -> {"no", "waiting", "back"}] /\ disposed \in BOOLEAN
    OBVIOUS
  <2>4. wt \in [Child -> Trees]
    BY <1>3
  <2>5. QED
    BY <2>1, <2>2, <2>3, <2>4 DEF Types
<1>6. BudgetInv
  BY <1>1, <1>2 DEF BudgetInv, TurnsWithinBudget, Limits
<1>7. FailureInv
  BY DEF FailureInv, NoFailurePassesAsAnswer
<1>8. TeardownInv
  BY <1>4 DEF TeardownInv, Published
<1>9. WorktreeInv
  BY <1>3, AgentAssumption DEF WorktreeInv, Held, NoWorktree
<1>10. QED
  BY <1>5, <1>6, <1>7, <1>8, <1>9 DEF IsolatedInv

(* What a step of the whole is to the session: a step of its own, its end  *)
(* with the process, a start that is refused a workspace, or nothing.      *)
WorkspaceRefused ==
  /\ stage = "new" /\ stage' = "failed"
  /\ UNCHANGED <<limits, published, runVars, loopVars, failure, teardownVars>>

ChildMove == ChildNext \/ ChildGone \/ WorkspaceRefused \/ UNCHANGED childVars

LEMMA ChildMoves == [Next]_vars => ChildMove
<1> SUFFICES ASSUME [Next]_vars PROVE ChildMove
  OBVIOUS
<1> USE DEF ChildMove
<1>1. CASE Prepare \/ UserStep \/ UNCHANGED vars
  BY <1>1 DEF Prepare, UserStep, vars
<1>2. CASE PrepareFails
  BY <1>2 DEF PrepareFails, WorkspaceRefused
<1>3. CASE SpawnChild \/ CreationFails \/ RunEnds \/ StartRunInPlace
  BY <1>3 DEF SpawnChild, CreationFails, RunEnds, StartRunInPlace, ChildNext
<1>4. CASE TurnEnds
  BY <1>4 DEF TurnEnds, ChildNext
<1>5. CASE TearDown
  BY <1>5 DEF TearDown, ChildNext
<1>6. CASE ChildAlone
  BY <1>6 DEF ChildAlone, ChildNext
<1>7. CASE ProcessEnded
  BY <1>7 DEF ProcessEnded
<1>8. QED
  BY <1>1, <1>2, <1>3, <1>4, <1>5, <1>6, <1>7 DEF Next

-----------------------------------------------------------------------------
(* The budget. *)

LEMMA BudgetStep == BudgetTypes /\ BudgetInv /\ ChildMove => (BudgetTypes /\ BudgetInv)'
<1> SUFFICES ASSUME BudgetTypes, BudgetInv, ChildMove PROVE (BudgetTypes /\ BudgetInv)'
  OBVIOUS
<1>0. \A n : n = limits.maxTurns => n = Absent \/ (n \in Nat /\ n >= 2)
  BY DEF BudgetTypes, Limits, MinMaxTurns
<1>1. CASE UNCHANGED <<limits, tracker, loop, stopping, spent>>
  BY <1>1 DEF BudgetTypes, BudgetInv, TurnsWithinBudget
<1>2. CASE ChildGone
  <2>1. tracker' = Tracker(limits) /\ limits' = limits /\ spent' = 0 /\ stopping' = FALSE /\ loop' = "idle"
    BY <1>2 DEF ChildGone
  <2>2. limits \in Limits
    BY DEF BudgetTypes
  <2>3. tracker' \in Trackers /\ tracker'.maxTurns = limits.maxTurns /\ tracker'.used = 0
        /\ tracker'.phase # "exhausted"
    BY <2>1, <2>2, TrackerTyped
  <2>4. BudgetTypes'
    BY <2>1, <2>2, <2>3 DEF BudgetTypes
  <2>5. BudgetInv'
    BY <1>0, <2>1, <2>3 DEF BudgetInv, TurnsWithinBudget
  <2>6. QED
    BY <2>4, <2>5
<1>3. CASE StartRun
  <2>1. /\ UNCHANGED limits /\ spent' = 0 /\ stopping' = FALSE
        /\ tracker' \in {Tracker(limits), Opened(Tracker(limits))}
    BY <1>3 DEF StartRun, creationVars
  <2>2. limits \in Limits
    BY DEF BudgetTypes
  <2>3. tracker' \in Trackers /\ tracker'.maxTurns = limits.maxTurns /\ tracker'.used = 0
        /\ tracker'.phase # "exhausted"
    BY <2>1, <2>2, TrackerTyped
  <2>4. BudgetTypes'
    BY <2>1, <2>2, <2>3 DEF BudgetTypes
  <2>5. BudgetInv'
    BY <1>0, <2>1, <2>3 DEF BudgetInv, TurnsWithinBudget
  <2>6. QED
    BY <2>4, <2>5
<1>4. CASE FireSignal \/ PromptResolves \/ PromptThrows
  <2>1. /\ UNCHANGED <<limits, tracker, spent>> /\ stopping' \in BOOLEAN /\ (stopping => stopping')
        /\ (loop' = "turn" => loop = "turn")
    BY <1>4 DEF FireSignal, PromptResolves, PromptThrows, creationVars, BudgetTypes
  <2>2. QED
    BY <2>1 DEF BudgetTypes, BudgetInv, TurnsWithinBudget
<1>5. CASE TurnStart
  <2>1. /\ UNCHANGED <<limits, spent>>
        /\ tracker' = OnTurnStart(tracker) /\ stopping' = (stopping \/ StopsAtStart(tracker))
        /\ loop' = IF stopping' THEN "doomed" ELSE "turn"
    BY <1>5 DEF TurnStart, creationVars
  <2>2. /\ tracker'.used = tracker.used /\ tracker'.maxTurns = tracker.maxTurns
        /\ tracker' \in Trackers
        /\ (tracker'.phase = "exhausted" => stopping')
    BY <2>1 DEF OnTurnStart, BudgetTypes, BudgetInv, Trackers
  <2>3. ~stopping' => limits.maxTurns = Absent \/ spent < limits.maxTurns
    <3>1. tracker.used \in Nat /\ tracker.used = spent /\ tracker.maxTurns = limits.maxTurns
          /\ tracker.maxTurns \in Int
      BY DEF BudgetTypes, BudgetInv, Trackers
    <3>2. CASE StopsAtStart(tracker)
      BY <2>1, <3>2
    <3>3. CASE tracker.phase = "exhausted"
      BY <2>1, <3>3 DEF BudgetInv
    <3>4. CASE limits.maxTurns = Absent \/ ~(tracker.used >= tracker.maxTurns)
      BY <3>1, <3>4
    <3>5. QED
      BY <3>1, <3>2, <3>3, <3>4 DEF StopsAtStart
  <2>4. QED
    BY <2>1, <2>2, <2>3 DEF BudgetTypes, BudgetInv, TurnsWithinBudget
<1>6. ASSUME NEW e \in Ends, TurnEnd(e[1], e[2]) PROVE (BudgetTypes /\ BudgetInv)'
  <2> DEFINE failed == e[1] # "ok"
             action == ActionAtEnd(tracker, failed, e[2])
  <2>1. /\ UNCHANGED limits
        /\ tracker' = OnTurnEnd(tracker, failed, e[2])
        /\ stopping' = (stopping \/ action = "stop")
        /\ spent' = IF failed THEN spent ELSE spent + 1
        /\ loop \in {"turn", "doomed"} /\ (loop = "doomed" => failed)
    BY <1>6 DEF TurnEnd, creationVars
  <2>2. loop' # "turn"
    BY <1>6 DEF TurnEnd, LoopAfter, Ends
  <2>3. CASE failed
    <3>1. action = "none"
      BY <2>3 DEF ActionAtEnd
    <3>2. UNCHANGED <<tracker, spent>>
      BY <2>1, <2>3 DEF OnTurnEnd
    <3>3. stopping' = stopping
      BY <2>1, <3>1 DEF BudgetTypes
    <3>4. QED
      BY <2>1, <2>2, <3>2, <3>3 DEF BudgetTypes, BudgetInv, TurnsWithinBudget
  <2>4. CASE ~failed
    <3>1. limits.maxTurns = Absent \/ spent < limits.maxTurns
      BY <2>1, <2>4 DEF BudgetInv
    <3>2. tracker' = [tracker EXCEPT !.used = @ + 1, !.phase = PhaseAfter(action, @)]
      BY <2>1, <2>4 DEF OnTurnEnd
    <3> HIDE DEF action
    <3>3. /\ tracker'.used = spent' /\ tracker'.maxTurns = limits.maxTurns
          /\ tracker' \in Trackers
          /\ tracker'.phase = PhaseAfter(action, tracker.phase)
      <4>1. PhaseAfter(action, tracker.phase) \in {"within", "warned", "exhausted"}
        BY DEF PhaseAfter, BudgetTypes, Trackers
      <4>2. spent' = spent + 1 /\ tracker.used = spent
        BY <2>1, <2>4 DEF BudgetInv
      <4> DEFINE after == PhaseAfter(action, tracker.phase)
      <4>3. tracker' = [tracker EXCEPT !.used = tracker.used + 1, !.phase = after]
        BY <3>2
      <4>4. tracker.used \in Nat /\ tracker \in Trackers /\ tracker.maxTurns = limits.maxTurns
        BY DEF BudgetTypes, Trackers
      <4> HIDE DEF after
      <4>5. tracker' \in Trackers
        <5>1. after \in {"within", "warned", "exhausted"}
          BY <4>1 DEF after
        <5>2. tracker' = [maxTurns |-> tracker.maxTurns, warnAt |-> tracker.warnAt,
                          used |-> tracker.used + 1, phase |-> after]
          BY <4>3, <4>4 DEF Trackers
        <5>3. tracker.maxTurns \in Int /\ tracker.warnAt \in Int
          BY <4>4 DEF Trackers
        <5>4. QED
          BY <4>4, <5>1, <5>2, <5>3 DEF Trackers
      <4>6. tracker'.used = tracker.used + 1 /\ tracker'.maxTurns = tracker.maxTurns /\ tracker'.phase = after
        BY <4>3, <4>4 DEF Trackers
      <4>7. QED
        BY <4>2, <4>4, <4>5, <4>6 DEF after
    <3>4. tracker'.phase = "exhausted" => stopping'
      BY <2>1, <3>3 DEF PhaseAfter, BudgetInv
    <3>5. QED
      BY <1>0, <2>1, <2>2, <2>4, <3>1, <3>3, <3>4 DEF BudgetTypes, BudgetInv, TurnsWithinBudget
  <2>5. QED
    BY <2>3, <2>4
<1>7. CASE WorkspaceRefused \/ UNCHANGED childVars
  BY <1>1, <1>7 DEF WorkspaceRefused, childVars, creationVars, runVars, loopVars
<1>8. CASE Spawn \/ PreparationFails \/ CreateSession \/ Bound \/ BindingFails \/ Steer
           \/ HandlersSettle \/ BoundPasses \/ FinishUnbound
           \/ \E k \in Caller : Dispose(k) \/ FinishDispose(k)
  BY <1>1, <1>8 DEF Spawn, PreparationFails, CreateSession, Bound, BindingFails, Steer, HandlersSettle,
     BoundPasses, FinishUnbound, Dispose, FinishDispose, creationVars, runVars, loopVars
<1>9. QED
  BY <1>2, <1>3, <1>4, <1>5, <1>6, <1>7, <1>8 DEF ChildMove, ChildNext

-----------------------------------------------------------------------------
(* Failures. *)

LEMMA FailureStep == FailureInv /\ ChildMove => FailureInv'
<1> SUFFICES ASSUME FailureInv, ChildMove PROVE FailureInv'
  OBVIOUS
<1> USE DEF FailureInv, NoFailurePassesAsAnswer
<1>1. CASE UNCHANGED <<loop, run, outcome, failure, last>> /\ (disposed => disposed')
  BY <1>1
<1>2. CASE ChildGone
  BY <1>2 DEF ChildGone
<1>3. CASE StartRun
  <2>1. /\ UNCHANGED <<failure, last, disposed>> /\ run # "prompting"
        /\ \/ run' = "settled" /\ outcome' = "nothing" /\ UNCHANGED loop
           \/ run' = "prompting" /\ outcome' = "none"
    BY <1>3 DEF StartRun, teardownVars
  <2>2. QED
    BY <2>1
<1>4. CASE TurnStart
  <2>1. UNCHANGED <<run, outcome, failure, last, disposed>> /\ loop # "idle"
    BY <1>4 DEF TurnStart, teardownVars
  <2>2. QED
    BY <2>1
<1>5. ASSUME NEW e \in Ends, TurnEnd(e[1], e[2]) PROVE FailureInv'
  <2>1. /\ UNCHANGED <<run, outcome, disposed>> /\ loop # "idle"
        /\ last' = e[1] /\ (~disposed => failure' = IF e[1] = "error" THEN "error" ELSE "none")
    BY <1>5 DEF TurnEnd, teardownVars
  <2>2. QED
    BY <2>1
<1>6. CASE PromptResolves
  <2>1. /\ UNCHANGED <<failure, last, disposed>> /\ run' = "settled" /\ loop' = "idle"
        /\ outcome' = IF failure = "error" THEN "error" ELSE "answer"
    BY <1>6 DEF PromptResolves, RunFailed, teardownVars
  <2>2. QED
    BY <2>1
<1>7. CASE PromptThrows
  BY <1>7 DEF PromptThrows, teardownVars
<1>8. CASE WorkspaceRefused \/ UNCHANGED childVars
  BY <1>1, <1>8 DEF WorkspaceRefused, childVars, runVars, loopVars, teardownVars
<1>9. CASE Spawn \/ PreparationFails \/ CreateSession \/ Bound \/ FireSignal \/ Steer
           \/ HandlersSettle \/ BoundPasses \/ FinishUnbound \/ \E k \in Caller : FinishDispose(k)
  BY <1>1, <1>9 DEF Spawn, PreparationFails, CreateSession, Bound, FireSignal, Steer, HandlersSettle,
     BoundPasses, FinishUnbound, FinishDispose, runVars, loopVars, teardownVars
<1>10. CASE BindingFails \/ \E k \in Caller : Dispose(k)
  <2>1. UNCHANGED <<loop, run, outcome, failure, last>> /\ BeginDispose
    BY <1>10 DEF BindingFails, Dispose, runVars, loopVars
  <2>2. disposed => disposed'
    BY <2>1 DEF BeginDispose, AlreadyDisposed
  <2>3. QED
    BY <1>1, <2>1, <2>2
<1>11. QED
  BY <1>2, <1>3, <1>4, <1>5, <1>6, <1>7, <1>8, <1>9, <1>10 DEF ChildMove, ChildNext

-----------------------------------------------------------------------------
(* The teardown. *)

TeardownTypes ==
  /\ published \in Seq(Events)
  /\ disposing \in [Caller -> {"no", "waiting", "back"}]
  /\ disposed \in BOOLEAN

(* What an announcement adds.                                              *)
LEMMA Announcement ==
  ASSUME published \in Seq(Events), NEW event \in Events, Publish(event)
  PROVE  /\ published' \in Seq(Events)
         /\ Published("disposed")' <=> Published("disposed") \/ event = "disposed"
         /\ Published("session-created")' <=> Published("session-created") \/ event = "session-created"
         /\ \A i, j \in 1 .. Len(published') :
              published'[i] = "disposed" /\ published'[j] = "disposed" =>
                \/ i = j
                \/ i \in 1 .. Len(published) /\ j \in 1 .. Len(published)
                   /\ published[i] = "disposed" /\ published[j] = "disposed"
                \/ event = "disposed" /\ Published("disposed")
<1> DEFINE n == Len(published)
<1>1. /\ published' \in Seq(Events) /\ Len(published') = n + 1 /\ n \in Nat
      /\ published'[n + 1] = event /\ \A i \in 1 .. n : published'[i] = published[i]
  <2>1. published' = Append(published, event)
    BY DEF Publish
  <2>2. n \in Nat
    OBVIOUS
  <2>3. published' \in Seq(Events) /\ Len(published') = n + 1
    BY <2>1, AppendProperties
  <2>4. published'[n + 1] = event /\ \A i \in 1 .. n : published'[i] = published[i]
    BY <2>1, AppendProperties
  <2>5. QED
    BY <2>2, <2>3, <2>4
<1>2. \A i : i \in 1 .. Len(published') <=> i \in 1 .. n \/ i = n + 1
  BY <1>1
<1>3. ASSUME NEW name PROVE Published(name)' <=> Published(name) \/ name = event
  <2>1. Published(name)' <=> \E i \in 1 .. Len(published') : published'[i] = name
    BY DEF Published
  <2>2. Published(name) <=> \E i \in 1 .. n : published[i] = name
    BY DEF Published
  <2> HIDE DEF n
  <2>3. QED
    BY <1>1, <1>2, <2>1, <2>2
<1>4. ASSUME NEW i \in 1 .. Len(published'), NEW j \in 1 .. Len(published'),
             published'[i] = "disposed", published'[j] = "disposed", i # j
      PROVE  \/ i \in 1 .. Len(published) /\ j \in 1 .. Len(published)
                /\ published[i] = "disposed" /\ published[j] = "disposed"
             \/ event = "disposed" /\ Published("disposed")
  <2>1. CASE i \in 1 .. n /\ j \in 1 .. n
    BY <1>1, <1>4, <2>1
  <2>2. CASE i \in 1 .. n /\ j = n + 1
    BY <1>1, <1>4, <2>2 DEF Published
  <2>3. CASE i = n + 1 /\ j \in 1 .. n
    BY <1>1, <1>4, <2>3 DEF Published
  <2>4. QED
    BY <1>2, <1>4, <2>1, <2>2, <2>3
<1>5. QED
  BY <1>1, <1>3, <1>4

LEMMA TeardownStep == TeardownTypes /\ TeardownInv /\ ChildMove => (TeardownTypes /\ TeardownInv)'
<1> SUFFICES ASSUME TeardownTypes, TeardownInv, ChildMove PROVE (TeardownTypes /\ TeardownInv)'
  OBVIOUS
<1>1. CASE UNCHANGED <<stage, published, teardownVars>>
  BY <1>1 DEF TeardownTypes, TeardownInv, teardownVars, Published, Awaited
<1>2. ASSUME UNCHANGED teardownVars, UNCHANGED published,
             stage \in {"new", "preparing"}, stage' = "failed"
      PROVE  (TeardownTypes /\ TeardownInv)'
  BY <1>2 DEF TeardownTypes, TeardownInv, teardownVars, Published, Awaited
<1>3. ASSUME NEW name \in {"spawning", "session-created", "bound", "completed"}, Publish(name),
             UNCHANGED teardownVars,
             \/ stage = "new" /\ stage' = "preparing"
             \/ stage = "preparing" /\ stage' = "binding" /\ name = "session-created"
             \/ stage = "binding" /\ stage' = "bound"
             \/ UNCHANGED stage
      PROVE  (TeardownTypes /\ TeardownInv)'
  <2>1. /\ published' \in Seq(Events)
        /\ Published("disposed")' <=> Published("disposed")
        /\ Published("session-created")' <=> Published("session-created") \/ name = "session-created"
        /\ \A i, j \in 1 .. Len(published') :
             published'[i] = "disposed" /\ published'[j] = "disposed" => i = j
    <3>1. name # "disposed"
      BY <1>3
    <3>2. name \in Events
      BY <1>3 DEF Events
    <3>3. QED
      BY <1>3, <3>1, <3>2, Announcement DEF TeardownTypes, TeardownInv
  <2>3. UNCHANGED <<disposing, disposed, handlers, timedOut>> /\ (Awaited => Awaited')
    BY <1>3 DEF teardownVars, Awaited
  <2> HIDE DEF Published, Awaited
  <2>4. QED
    BY <1>3, <2>1, <2>3 DEF TeardownTypes, TeardownInv
<1>4. CASE ChildGone
  <2>1. /\ published' = <<>> /\ disposed' = FALSE /\ disposing' = [k \in Caller |-> "no"]
        /\ stage' = "new"
    BY <1>4 DEF ChildGone
  <2>2. ~Published("disposed")' /\ Len(published') = 0
    BY <2>1 DEF Published
  <2>3. TeardownTypes'
    <3>1. published' \in Seq(Events)
      BY <2>1
    <3>2. QED
      BY <2>1, <3>1 DEF TeardownTypes
  <2>4. 1 .. Len(published') = {}
    BY <2>2
  <2>5. TeardownInv'
    BY <2>1, <2>2, <2>4 DEF TeardownInv
  <2>6. QED
    BY <2>3, <2>5
<1>5. CASE BindingFails
  <2>1. stage = "binding" /\ stage' = "unbound" /\ UNCHANGED <<published, disposing>> /\ BeginDispose
    BY <1>5 DEF BindingFails
  <2>2. ~disposed /\ ~Published("disposed") /\ \A k \in Caller : disposing[k] # "waiting"
    BY <2>1 DEF TeardownInv
  <2>3. disposed' = TRUE
    BY <2>1, <2>2 DEF BeginDispose, AlreadyDisposed
  <2>4. Published("disposed")' = Published("disposed") /\ Published("session-created")' = Published("session-created")
    BY <2>1 DEF Published
  <2>5. QED
    BY <2>1, <2>2, <2>3, <2>4 DEF TeardownTypes, TeardownInv
<1>6. ASSUME NEW k \in Caller, Dispose(k) PROVE (TeardownTypes /\ TeardownInv)'
  <2>1. /\ stage = "bound" /\ UNCHANGED <<stage, published, timedOut>> /\ BeginDispose
        /\ disposing' = [disposing EXCEPT ![k] = IF disposed THEN "back" ELSE "waiting"]
    BY <1>6 DEF Dispose, creationVars, AlreadyDisposed
  <2>2. /\ \A other \in Caller : other # k => disposing'[other] = disposing[other]
        /\ disposing'[k] = (IF disposed THEN "back" ELSE "waiting")
        /\ disposing' \in [Caller -> {"no", "waiting", "back"}]
    BY <2>1 DEF TeardownTypes
  <2>3. Published("disposed")' = Published("disposed") /\ Published("session-created")' = Published("session-created")
    BY <2>1 DEF Published
  <2>4. CASE disposed
    <3>1. UNCHANGED <<disposed, handlers, timedOut>> /\ Awaited' = Awaited
      BY <2>1, <2>4 DEF BeginDispose, AlreadyDisposed, Awaited
    <3>2. QED
      BY <2>1, <2>2, <2>3, <2>4, <3>1 DEF TeardownTypes, TeardownInv
  <2>5. CASE ~disposed
    <3>1. disposed' = TRUE /\ ~Published("disposed") /\ \A l \in Caller : disposing[l] # "waiting"
      BY <2>1, <2>5 DEF BeginDispose, AlreadyDisposed, TeardownInv
    <3>2. QED
      BY <2>1, <2>2, <2>3, <2>5, <3>1 DEF TeardownTypes, TeardownInv
  <2>6. QED
    BY <2>4, <2>5
<1>7. CASE HandlersSettle \/ BoundPasses
  <2>1. UNCHANGED <<stage, published, disposing, disposed>> /\ Awaited'
    BY <1>7 DEF HandlersSettle, BoundPasses, creationVars, Awaited
  <2>2. QED
    BY <2>1 DEF TeardownTypes, TeardownInv, Published
<1>8. ASSUME NEW k \in Caller, FinishDispose(k) PROVE (TeardownTypes /\ TeardownInv)'
  <2>1. /\ disposing[k] = "waiting" /\ Awaited /\ Publish("disposed")
        /\ disposing' = [disposing EXCEPT ![k] = "back"]
        /\ UNCHANGED <<stage, disposed, handlers, timedOut>>
    BY <1>8 DEF FinishDispose, creationVars
  <2>2. stage = "bound" /\ disposed /\ ~Published("disposed") /\ Published("session-created")
    BY <2>1 DEF TeardownInv
  <2>3. \A other \in Caller : disposing'[other] # "waiting"
    BY <2>1 DEF TeardownTypes, TeardownInv
  <2>4. disposing' \in [Caller -> {"no", "waiting", "back"}]
    BY <2>1 DEF TeardownTypes
  <2>5. Awaited'
    BY <2>1 DEF Awaited
  <2>6. /\ published' \in Seq(Events) /\ Published("disposed")' /\ Published("session-created")'
        /\ \A i, j \in 1 .. Len(published') :
             published'[i] = "disposed" /\ published'[j] = "disposed" => i = j
    <3>1. "disposed" \in Events /\ published \in Seq(Events) /\ Publish("disposed")
      BY <2>1 DEF TeardownTypes, Events
    <3>2. QED
      BY <2>2, <3>1, Announcement DEF TeardownInv
  <2>7. QED
    BY <2>1, <2>2, <2>3, <2>4, <2>5, <2>6 DEF TeardownTypes, TeardownInv
<1>9. CASE FinishUnbound
  <2>1. /\ stage = "unbound" /\ stage' = "failed" /\ Awaited /\ Publish("disposed")
        /\ UNCHANGED <<disposing, disposed, handlers, timedOut>>
    BY <1>9 DEF FinishUnbound, teardownVars
  <2>2. disposed /\ ~Published("disposed") /\ Published("session-created")
    BY <2>1 DEF TeardownInv
  <2>3. Awaited'
    BY <2>1 DEF Awaited
  <2>4. /\ published' \in Seq(Events) /\ Published("disposed")' /\ Published("session-created")'
        /\ \A i, j \in 1 .. Len(published') :
             published'[i] = "disposed" /\ published'[j] = "disposed" => i = j
    <3>1. "disposed" \in Events /\ published \in Seq(Events) /\ Publish("disposed")
      BY <2>1 DEF TeardownTypes, Events
    <3>2. QED
      BY <2>2, <3>1, Announcement DEF TeardownInv
  <2>5. QED
    BY <2>1, <2>2, <2>3, <2>4 DEF TeardownTypes, TeardownInv
<1>10. CASE Spawn \/ CreateSession \/ Bound
  BY <1>3, <1>10 DEF Spawn, CreateSession, Bound
<1>11. CASE PreparationFails \/ WorkspaceRefused
  BY <1>2, <1>11 DEF PreparationFails, WorkspaceRefused
<1>12. CASE StartRun \/ PromptResolves
  <2>1. UNCHANGED <<stage, teardownVars>> /\ (UNCHANGED published \/ Publish("completed"))
    BY <1>12 DEF StartRun, PromptResolves, creationVars
  <2>2. QED
    BY <1>1, <1>3, <2>1
<1>13. CASE FireSignal \/ Steer \/ TurnStart \/ PromptThrows \/ UNCHANGED childVars
  BY <1>1, <1>13 DEF FireSignal, Steer, TurnStart, PromptThrows, childVars, creationVars
<1>14. ASSUME NEW e \in Ends, TurnEnd(e[1], e[2]) PROVE (TeardownTypes /\ TeardownInv)'
  BY <1>1, <1>14 DEF TurnEnd, creationVars
<1>15. QED
  BY <1>4, <1>5, <1>6, <1>7, <1>8, <1>9, <1>10, <1>11, <1>12, <1>13, <1>14 DEF ChildMove, ChildNext

-----------------------------------------------------------------------------
(* The worktree. *)

(* What an operation makes of one worktree it is used on.                  *)
LEMMA TreesStay ==
  ASSUME NEW w \in Trees
  PROVE  /\ ToolEffects(w) \subseteq Trees /\ Removed(w) \subseteq Trees
         /\ CleanupResults(w) \subseteq Trees
         /\ \A r \in ToolEffects(w) :
              /\ r.tree = w.tree
              /\ \/ r.work = w.work /\ r.dirty = w.dirty /\ r.branch = w.branch
                 \/ r.work = "uncommitted" /\ r.dirty /\ r.tree = "present"
                 \/ r.work = "committed"
         /\ \A r \in Removed(w) :
              r.work = w.work /\ r.branch = w.branch /\ (r.tree = w.tree \/ r.tree = "gone")
         /\ \A r \in CleanupResults(w) :
              /\ r.work = w.work /\ (w.branch => r.branch)
              /\ w.dirty => r.branch \/ r.tree = w.tree
              /\ ~w.dirty => r.dirty = FALSE /\ r.branch = w.branch
<1> DEFINE changed == [w EXCEPT !.dirty = TRUE, !.work = "uncommitted"]
           commits == [w EXCEPT !.dirty = FALSE, !.ahead = TRUE, !.work = "committed"]
           strays == [w EXCEPT !.astray = TRUE]
           Gone(x) == [x EXCEPT !.tree = "gone", !.dirty = FALSE, !.ahead = FALSE]
           kept == CommittedTo(w)
           rescued == [kept EXCEPT !.branch = TRUE]
<1>1. \A x \in Trees : /\ Gone(x) \in Trees
                      /\ Gone(x).dirty = FALSE /\ Gone(x).branch = x.branch /\ Gone(x).work = x.work
                      /\ Gone(x).tree = "gone"
  BY DEF Trees
<1>2. /\ changed \in Trees /\ changed.work = "uncommitted" /\ changed.dirty = TRUE
      /\ changed.tree = w.tree
  BY DEF Trees
<1>3. /\ commits \in Trees /\ commits.work = "committed" /\ commits.tree = w.tree
      /\ strays \in Trees /\ strays.tree = w.tree /\ strays.work = w.work
      /\ strays.dirty = w.dirty /\ strays.branch = w.branch
  BY DEF Trees
<1>4. /\ kept \in Trees /\ kept.work = w.work /\ kept.branch = w.branch /\ kept.tree = w.tree
  BY DEF Trees, CommittedTo
<1> HIDE DEF kept
<1>5. /\ rescued \in Trees /\ rescued.work = w.work /\ rescued.branch = TRUE
  BY <1>4 DEF Trees
<1>6. /\ \A r \in ToolEffects(w) :
           r = w \/ r = strays \/ (w.tree = "present" /\ r = changed) \/ r = commits
      /\ \A x : \A r \in Removed(x) : r = x \/ r = Gone(x)
      /\ \A r \in CleanupResults(w) :
           \/ r = w
           \/ ~w.dirty /\ r = Gone(w)
           \/ w.dirty /\ (r = kept \/ r = rescued \/ r = Gone(rescued))
  <2>1. \A r \in ToolEffects(w) :
          r = w \/ r = strays \/ (w.tree = "present" /\ r = changed) \/ r = commits
    <3>1. w.tree \in {"none", "present", "gone"}
      BY DEF Trees
    <3>2. CASE w.tree = "none"
      BY <3>2 DEF ToolEffects
    <3>3. CASE w.tree = "gone"
      BY <3>3 DEF ToolEffects
    <3>4. CASE w.tree = "present"
      BY <3>4 DEF ToolEffects
    <3>5. QED
      BY <3>1, <3>2, <3>3, <3>4
  <2>2. \A x : Removed(x) = {x, Gone(x)}
    BY DEF Removed
  <2>3. \A r \in CleanupResults(w) :
           \/ r = w
           \/ ~w.dirty /\ r \in Removed(w)
           \/ w.dirty /\ (r = kept \/ r \in Removed(rescued))
    BY DEF CleanupResults, LeftInPlace, kept
  <2> HIDE DEF Gone, rescued, changed, commits, strays
  <2>4. QED
    BY <2>1, <2>2, <2>3
<1> HIDE DEF Gone, rescued, changed, commits, strays
<1>7. w.dirty \in BOOLEAN /\ w.branch \in BOOLEAN
  BY DEF Trees
<1>8. \A r \in ToolEffects(w) :
        /\ r \in Trees /\ r.tree = w.tree
        /\ \/ r.work = w.work /\ r.dirty = w.dirty /\ r.branch = w.branch
           \/ r.work = "uncommitted" /\ r.dirty /\ r.tree = "present"
           \/ r.work = "committed"
  BY <1>2, <1>3, <1>6
<1>9. \A r \in Removed(w) :
        /\ r \in Trees
        /\ r.work = w.work /\ r.branch = w.branch /\ (r.tree = w.tree \/ r.tree = "gone")
  BY <1>1, <1>6
<1>10. ASSUME NEW r \in CleanupResults(w)
       PROVE  /\ r \in Trees /\ r.work = w.work /\ (w.branch => r.branch)
              /\ w.dirty => r.branch \/ r.tree = w.tree
              /\ ~w.dirty => r.dirty = FALSE /\ r.branch = w.branch
  <2>1. CASE ~w.dirty
    BY <1>1, <1>6, <1>7, <1>10, <2>1
  <2>2. CASE w.dirty
    BY <1>1, <1>4, <1>5, <1>6, <1>7, <1>10, <2>2
  <2>3. QED
    BY <2>1, <2>2
<1>11. QED
  BY <1>8, <1>9, <1>10

WorktreeTypes == wt \in [Child -> Trees]

(* The bracket goes, in whatever step: what it leaves can be found.        *)
LEMMA BracketDisposed ==
  ASSUME WorktreeTypes, WorktreeInv, DisposeBracket, UNCHANGED up
  PROVE  (WorktreeTypes /\ WorktreeInv)'
<1> USE AgentAssumption
<1>1. CASE bracket # "prepared"
  <2>1. UNCHANGED <<bracket, wt, live, discarded, up>>
    BY <1>1 DEF DisposeBracket, worktreeVars
  <2>2. QED
    BY <2>1 DEF WorktreeTypes, WorktreeInv, Held
<1>2. CASE bracket = "prepared"
  <2>1. bracket' = "disposed" /\ live' = live \ {agent} /\ UNCHANGED <<discarded, up>>
    BY <1>2 DEF DisposeBracket, DisposeWorkspace
  <2>2. PICK r \in CleanupResults(wt[agent]) : wt' = [wt EXCEPT ![agent] = r]
    BY <1>2 DEF DisposeBracket, DisposeWorkspace
  <2>3. wt[agent] \in Trees
    BY DEF WorktreeTypes
  <2>4. /\ wt'[agent] = r /\ \A c \in Child : c # agent => wt'[c] = wt[c]
        /\ r \in Trees
    BY <2>2, <2>3, TreesStay DEF WorktreeTypes
  <2>5. WorktreeTypes'
    BY <2>2, <2>4 DEF WorktreeTypes
  <2>6. r.work = "uncommitted" => r.branch \/ r.tree = "present" \/ agent \in discarded
    <3>1. /\ r.work = wt[agent].work /\ (wt[agent].branch => r.branch)
          /\ wt[agent].dirty => r.branch \/ r.tree = wt[agent].tree
      BY <2>2, <2>3, TreesStay
    <3>2. QED
      BY <1>2, <3>1 DEF WorktreeInv
  <2>7. WorktreeInv'
    BY <1>2, <2>1, <2>4, <2>6 DEF WorktreeInv, Held
  <2>8. QED
    BY <2>5, <2>7
<1>3. QED
  BY <1>1, <1>2

LEMMA WorktreeStep == WorktreeTypes /\ WorktreeInv /\ [Next]_vars => (WorktreeTypes /\ WorktreeInv)'
<1> SUFFICES ASSUME WorktreeTypes, WorktreeInv, [Next]_vars PROVE (WorktreeTypes /\ WorktreeInv)'
  OBVIOUS
<1> USE AgentAssumption
<1>1. CASE UNCHANGED <<wt, live, discarded, bracket, up>>
  BY <1>1 DEF WorktreeTypes, WorktreeInv, Held
<1>2. CASE Prepare
  <2>1. /\ bracket = "none" /\ up /\ bracket' = "prepared" /\ UNCHANGED <<up, discarded>>
        /\ wt[agent].tree = "none"
        /\ wt' = [wt EXCEPT ![agent].tree = "present"] /\ live' = live \cup {agent}
    BY <1>2 DEF Prepare, CreateWorktree
  <2>2. wt[agent] \in Trees
    BY DEF WorktreeTypes
  <2>3. /\ wt'[agent] = [wt[agent] EXCEPT !.tree = "present"]
        /\ \A c \in Child : c # agent => wt'[c] = wt[c]
    BY <2>1 DEF WorktreeTypes
  <2>4. wt'[agent] \in Trees /\ wt'[agent].work = wt[agent].work
    BY <2>2, <2>3 DEF Trees
  <2>5. WorktreeTypes'
    BY <2>1, <2>3, <2>4 DEF WorktreeTypes
  <2>6. WorktreeInv'
    BY <2>1, <2>3, <2>4 DEF WorktreeInv, Held
  <2>7. QED
    BY <2>5, <2>6
<1>3. CASE CreationFails \/ RunEnds \/ StartRunInPlace \/ TearDown
  <2>1. UNCHANGED up /\ (DisposeBracket \/ UNCHANGED <<bracket, worktreeVars>>)
    BY <1>3 DEF CreationFails, Failed, RunEnds, Completed, StartRunInPlace, TearDown
  <2>2. CASE DisposeBracket
    BY <2>1, <2>2, BracketDisposed
  <2>3. CASE UNCHANGED <<bracket, worktreeVars>>
    BY <1>1, <2>1, <2>3 DEF worktreeVars
  <2>4. QED
    BY <2>1, <2>2, <2>3
<1>4. CASE TurnEnds
  <2>1. /\ UNCHANGED <<up, bracket>>
        /\ UNCHANGED worktreeVars \/ ToolsRun(agent)
    BY <1>4 DEF TurnEnds
  <2>2. CASE UNCHANGED worktreeVars
    BY <1>1, <2>1, <2>2 DEF worktreeVars
  <2>3. CASE ToolsRun(agent)
    <3>1. PICK r \in ToolEffects(wt[agent]) : wt' = [wt EXCEPT ![agent] = r]
      BY <2>3 DEF ToolsRun
    <3>2. UNCHANGED <<live, discarded>>
      BY <2>3 DEF ToolsRun
    <3>3. wt[agent] \in Trees
      BY DEF WorktreeTypes
    <3>4. /\ r \in Trees /\ r.tree = wt[agent].tree
          /\ \/ r.work = wt[agent].work /\ r.dirty = wt[agent].dirty /\ r.branch = wt[agent].branch
             \/ r.work = "uncommitted" /\ r.dirty /\ r.tree = "present"
             \/ r.work = "committed"
      BY <3>1, <3>3, TreesStay
    <3>5. wt'[agent] = r /\ \A c \in Child : c # agent => wt'[c] = wt[c]
      BY <3>1 DEF WorktreeTypes
    <3>6. WorktreeTypes'
      BY <3>1, <3>4 DEF WorktreeTypes
    <3>7. WorktreeInv'
      BY <2>1, <2>3, <3>2, <3>4, <3>5 DEF WorktreeInv, Held
    <3>8. QED
      BY <3>6, <3>7
  <2>4. QED
    BY <2>1, <2>2, <2>3
<1>5. CASE ProcessEnded
  <2>1. UNCHANGED <<wt, discarded>> /\ live' = {} /\ bracket' = "none" /\ up' = FALSE
    BY <1>5 DEF ProcessEnded, ProcessEnds
  <2>2. QED
    BY <2>1 DEF WorktreeTypes, WorktreeInv
<1>6. CASE UserStep
  <2>1. UNCHANGED <<up, bracket>> /\ CommandStep
    BY <1>6 DEF UserStep, bracketVars
  <2>2. CASE OpenCommand \/ CloseCommand
    BY <1>1, <2>1, <2>2 DEF OpenCommand, CloseCommand
  <2>3. ASSUME NEW c \in Child, Discard(c) PROVE (WorktreeTypes /\ WorktreeInv)'
    <3>1. discarded' = discarded \cup {c} /\ UNCHANGED live
      BY <2>3 DEF Discard
    <3>2. PICK r \in Removed(wt[c]) : wt' = [wt EXCEPT ![c] = r]
      BY <2>3 DEF Discard
    <3>3. wt[c] \in Trees
      BY DEF WorktreeTypes
    <3>4. r \in Trees /\ r.work = wt[c].work /\ (r.tree = wt[c].tree \/ r.tree = "gone")
      BY <3>2, <3>3, TreesStay
    <3>5. wt'[c] = r /\ \A other \in Child : other # c => wt'[other] = wt[other]
      BY <3>2 DEF WorktreeTypes
    <3>6. WorktreeTypes'
      BY <3>2, <3>4 DEF WorktreeTypes
    <3>7. WorktreeInv'
      BY <2>1, <3>1, <3>4, <3>5 DEF WorktreeInv, Held
    <3>8. QED
      BY <3>6, <3>7
  <2>4. QED
    BY <2>1, <2>2, <2>3 DEF CommandStep
<1>7. CASE PrepareFails \/ SpawnChild \/ ChildAlone \/ UNCHANGED vars
  BY <1>1, <1>7 DEF PrepareFails, SpawnChild, ChildAlone, Apart, vars, worktreeVars, bracketVars
<1>8. QED
  BY <1>2, <1>3, <1>4, <1>5, <1>6, <1>7 DEF Next

-----------------------------------------------------------------------------
(* The four parts together. *)

LEMMA IsolatedStep == IsolatedInv /\ [Next]_vars => IsolatedInv'
<1> SUFFICES ASSUME IsolatedInv, [Next]_vars PROVE IsolatedInv'
  OBVIOUS
<1>1. ChildMove
  BY ChildMoves
<1>2. (BudgetTypes /\ BudgetInv)'
  BY <1>1, BudgetStep DEF IsolatedInv, Types
<1>3. FailureInv'
  BY <1>1, FailureStep DEF IsolatedInv
<1>4. (TeardownTypes /\ TeardownInv)'
  BY <1>1, TeardownStep DEF IsolatedInv, Types, TeardownTypes
<1>5. (WorktreeTypes /\ WorktreeInv)'
  BY WorktreeStep DEF IsolatedInv, Types, WorktreeTypes
<1>6. QED
  BY <1>2, <1>3, <1>4, <1>5 DEF IsolatedInv, Types, TeardownTypes, WorktreeTypes

(* The inductive invariant holds of every run of the child, whatever its   *)
(* limits, files and settings, and whenever its process ends.              *)
THEOREM IsolatedInvariant == Spec => []IsolatedInv
<1>1. Init => IsolatedInv
  BY IsolatedInitially
<1>2. IsolatedInv /\ [Next]_vars => IsolatedInv'
  BY IsolatedStep
<1>3. QED
  BY <1>1, <1>2, PTL DEF Spec

(* However many runs a session has, whatever its turns call, fail at or    *)
(* are steered to, no run completes more turns than it was spawned with:   *)
(* any limit the door, the agent files and the settings can resolve to     *)
(* (turn-limits.ts:45-50).                                                 *)
THEOREM TurnsStayWithinBudget == Spec => []TurnsWithinBudget
<1>1. IsolatedInv => TurnsWithinBudget
  BY DEF IsolatedInv, BudgetInv
<1>2. QED
  BY <1>1, IsolatedInvariant, PTL

(* A run whose session last ended in a provider error is never reported as *)
(* an answer (subagent-session.ts:318-325).                                *)
THEOREM FailuresAreNotAnswers == Spec => []NoFailurePassesAsAnswer
<1>1. IsolatedInv => NoFailurePassesAsAnswer
  BY DEF IsolatedInv, FailureInv
<1>2. QED
  BY <1>1, IsolatedInvariant, PTL

(* However many callers tear a session down, it announces its end once,    *)
(* after its creation, and once the child's handlers are done or past      *)
(* their bound (subagent-session.ts:259-272).                              *)
THEOREM TeardownIsInOrder == Spec => []TeardownInOrder
<1>1. IsolatedInv => TeardownInOrder
  <2> SUFFICES ASSUME IsolatedInv PROVE TeardownInOrder
    OBVIOUS
  <2> DEFINE ends == {i \in 1 .. Len(published) : published[i] = "disposed"}
  <2>1. Published("disposed") => (handlers = "done" \/ timedOut) /\ Published("session-created")
    BY DEF IsolatedInv, TeardownInv, Awaited
  <2>2. Cardinality(ends) <= 1
    <3>1. CASE ends = {}
      BY <3>1, FS_EmptySet
    <3>2. ASSUME NEW i \in ends PROVE Cardinality(ends) <= 1
      <4>1. ends = {i}
        BY <3>2 DEF IsolatedInv, TeardownInv
      <4>2. Cardinality({i}) = 1
        BY FS_Singleton
      <4> HIDE DEF ends
      <4>3. QED
        BY <4>1, <4>2
    <3>3. QED
      BY <3>1, <3>2
  <2>3. QED
    BY <2>1, <2>2 DEF TeardownInOrder
<1>2. QED
  BY <1>1, IsolatedInvariant, PTL

(* What any child left uncommitted in its worktree is in a worktree the    *)
(* next session finds, or on a branch, whatever git refuses, whenever the  *)
(* session is torn down, under a turn that unwinds and still writes too,   *)
(* the process ends and the user discards another's worktree               *)
(* (worktree.ts:7-8).                                                      *)
THEOREM WorkStaysFindable == Spec => []WorkIsFindable
<1>1. IsolatedInv => WorkIsFindable
  BY DEF IsolatedInv, WorktreeInv, WorkIsFindable, Findable, Unmerged, Preserved
<1>2. QED
  BY <1>1, IsolatedInvariant, PTL
=============================================================================
