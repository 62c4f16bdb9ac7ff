-------------------------- MODULE SubagentSettings --------------------------
(***************************************************************************)
(* The operational settings of pi-subagents: settings.ts, the layered      *)
(* loader (layered-settings.ts) and the /subagents:settings dialog         *)
(* (ui/subagents-settings.ts). A settings object is a function on the keys *)
(* it holds; a key whose value has another type than it should is one a    *)
(* file does not hold, except that a number that is no integer is Garbage. *)
(***************************************************************************)
EXTENDS TurnBudget

Garbage == -1
Blank == ""

NumberKeys == {"maxConcurrent", "defaultMaxTurns", "wrapUpTurns",
               "consumedSessionRetentionMinutes", "unconsumedSessionRetentionMinutes"}
RetentionKeys == {"consumedSessionRetentionMinutes", "unconsumedSessionRetentionMinutes"}
SwitchKeys == {"abortAllOnInterrupt", "midRunUpdates"}
Packages == "excludedExtensionPackages"
Inheritance == "promptInheritance"

RetentionMinutesCeiling == 20160

Floor(key) == IF key = "defaultMaxTurns" THEN 0 ELSE 1

Ceiling(key) ==
  CASE key = "maxConcurrent"   -> 1024
    [] key = "defaultMaxTurns" -> 10000
    [] key = "wrapUpTurns"     -> 1000
    [] OTHER                   -> RetentionMinutesCeiling

Default(key) ==
  CASE key = "maxConcurrent"   -> 4
    [] key = "defaultMaxTurns" -> Absent
    [] key = "wrapUpTurns"     -> 2
    [] key = "consumedSessionRetentionMinutes" -> 10
    [] OTHER                   -> 720

Strategies == {"full", "portable"}

-----------------------------------------------------------------------------
(* Reading the two files.                                                  *)

(* {...base, ...over}: whole keys, so a list or a map replaces another.    *)
Spread(base, over) ==
  [k \in DOMAIN base \cup DOMAIN over |-> IF k \in DOMAIN over THEN over[k] ELSE base[k]]

NoKeys == [k \in {} |-> Garbage]

KnownStrategies(rules) == {p \in DOMAIN rules : rules[p] \in Strategies}

Acceptable(key, value) ==
  \/ key \in NumberKeys /\ value \in Floor(key)..Ceiling(key)
  \/ key \in SwitchKeys \cup {Packages}
  \/ key = Inheritance /\ KnownStrategies(value) # {}

Cleaned(key, value) ==
  IF key = Packages THEN value \ {Blank}
  ELSE IF key = Inheritance THEN [p \in KnownStrategies(value) |-> value[p]]
  ELSE value

(* sanitize(): garbage becomes absent, one key at a time.                  *)
Sanitize(raw) ==
  [k \in {key \in DOMAIN raw : Acceptable(key, raw[key])} |-> Cleaned(k, raw[k])]

(* readLayer(): a file that is missing or cannot be parsed holds nothing.  *)
Layer(file) == IF file.kind = "object" THEN Sanitize(file.keys) ELSE NoKeys

LoadSettings(global, project) == Spread(Layer(global), Layer(project))

-----------------------------------------------------------------------------
(* SettingsManager: what it holds in memory.                               *)

(* The setters clamp again, from below only but for the retention windows. *)
Normalized(key, n) ==
  IF key = "defaultMaxTurns" THEN NormalizeMaxTurns(n)
  ELSE IF key \in RetentionKeys /\ n > RetentionMinutesCeiling THEN RetentionMinutesCeiling
  ELSE Larger(1, n)

Defaults ==
  [numbers  |-> [k \in NumberKeys |-> Default(k)],
   switches |-> [k \in SwitchKeys |-> TRUE],
   excluded |-> {},
   inherits |-> NoKeys]

(* load(): the numbers and switches no file holds stay as they are, the    *)
(* two hand-edited keys are cleared.                                       *)
Load(memory, global, project) ==
  LET settings == LoadSettings(global, project)
      Held(key, absent) == IF key \in DOMAIN settings THEN settings[key] ELSE absent
  IN [numbers  |-> [k \in NumberKeys |-> IF k \in DOMAIN settings
                                         THEN Normalized(k, settings[k])
                                         ELSE memory.numbers[k]],
      switches |-> [k \in SwitchKeys |-> Held(k, memory.switches[k])],
      excluded |-> Held(Packages, {}),
      inherits |-> Held(Inheritance, NoKeys)]

(* snapshot(): 0 stands for unlimited, and the two hand-edited keys are    *)
(* written only when they hold something.                                  *)
SnapshotKeys(memory) ==
  NumberKeys \cup SwitchKeys
    \cup {k \in {Packages} : memory.excluded # {}}
    \cup {k \in {Inheritance} : DOMAIN memory.inherits # {}}

Written(memory, key) ==
  IF key \in NumberKeys
  THEN IF memory.numbers[key] = Absent THEN 0 ELSE memory.numbers[key]
  ELSE IF key \in SwitchKeys THEN memory.switches[key]
  ELSE IF key = Packages THEN memory.excluded
  ELSE memory.inherits

Snapshot(memory) == [k \in SnapshotKeys(memory) |-> Written(memory, k)]

SavedFile(memory) == [kind |-> "object", keys |-> Snapshot(memory)]

(* apply*() after the dialog's check of the number, and toggle*().         *)
Apply(memory, key, n) == [memory EXCEPT !.numbers[key] = Normalized(key, n)]

Enter(memory, key, n) == IF n >= Floor(key) THEN Apply(memory, key, n) ELSE memory

Toggle(memory, key) == [memory EXCEPT !.switches[key] = ~@]

(* The dialog's choices, in turn: a number entered, or a switch flipped.   *)
Edited(memory, edit) ==
  CASE edit.key \in NumberKeys -> Enter(memory, edit.key, edit.number)
    [] edit.key \in SwitchKeys -> Toggle(memory, edit.key)
    [] OTHER                   -> memory
=============================================================================
