--------------------------- MODULE AutoformatConfig ---------------------------
(* pi-autoformat, config-loader.ts, formatter-config.ts and format-scope.ts.  *)
(* A parsed file is a function from the keys it holds to values; Bad stands   *)
(* for a value of the wrong shape, Unreadable for a file that does not parse. *)
EXTENDS Integers, Sequences, SequencesExt

CONSTANTS Bad, Unreadable   \* model values

ASSUME BadAssumption == Bad # Unreadable

None == <<>>                 \* the empty object
Blank == ""
Builtins == {"treefmt", "treefmt-nix"}
PiTools == {"bash", "edit", "write", "read", "grep", "find", "ls"}

\* The entries of an object that pass, each as it is validated.
Kept(object, Valid(_, _), Read(_, _)) ==
  [k \in {k \in DOMAIN object : Valid(k, object[k])} |-> Read(k, object[k])]
Words(value) == value # Bad /\ value # <<>> /\ Blank \notin ToSet(value) /\ Bad \notin ToSet(value)

(* ----- formatters: validateFormatterDefinition(), validateFormatters() ---- *)
ValidCommand(definition) ==
  "command" \in DOMAIN definition /\ Words(definition.command)
    /\ "$FILE" \notin ToSet(definition.command)
ValidFormatter(name, definition) == definition # Bad /\ ValidCommand(definition)
\* An unknown property, a bad environment and a bad flag cost only themselves.
Formatter(name, definition) ==
  [command |-> definition.command,
   disabled |-> "disabled" \in DOMAIN definition /\ definition.disabled = TRUE]
ValidateFormatters(object) == Kept(object, ValidFormatter, Formatter)

(* ----- chains: a step is [kind, names], "single", "fallback" or "bad" ----- *)
(* validateFallbackStep(): extra is whether it has a property of its own.     *)
ValidFallback(step, known) ==
  Words(step.names) /\ ToSet(step.names) \subseteq known /\ ~step.extra
ValidStep(step, known) ==
  CASE step.kind = "single" -> Words(step.names) /\ ToSet(step.names) \subseteq known
    [] step.kind = "fallback" -> ValidFallback(step, known)
    [] OTHER -> FALSE
ChainKeys == {"*", ".ts", ".md"}   \* of those that begin with a dot
(* (A bug: a chain is kept without its bad steps.)                            *)
ValidChainInPart(key, chain, known) ==
  key \in ChainKeys /\ chain # Bad /\ chain # <<>>
\* validateChains(): one bad step and the chain is dropped whole.
ValidChain(key, chain, known) ==
  key \in ChainKeys /\ chain # Bad /\ chain # <<>>
    /\ \A i \in 1..Len(chain) : ValidStep(chain[i], known)
ReadChain(key, chain) ==
  [i \in 1..Len(chain) |-> [kind |-> chain[i].kind, names |-> chain[i].names]]
ValidateChains(object, known) ==
  Kept(object, LAMBDA k, c : ValidChain(k, c, known), ReadChain)

(* ----- the other keys ----------------------------------------------------- *)
ValidTimeout(value) == value # Bad /\ value \in Nat \ {0}

ValidScope(scope) ==
  \/ scope.kind \in {"repoRoot", "cwd"}
  \/ scope.kind = "list" /\ "" \notin ToSet(scope.roots)

(* validateWrapper(); one bad entry drops the array.                          *)
ValidWrapper(wrapper) ==
  wrapper # Bad /\ "prefix" \in DOMAIN wrapper /\ wrapper.prefix \notin {Bad, ""}
    /\ ("outputFormat" \in DOMAIN wrapper => wrapper.outputFormat = "lines")
ValidWrappers(value) == value # Bad /\ \A i \in 1..Len(value) : ValidWrapper(value[i])

DetectionField(key, value) ==
  CASE key \in {"enabled", "argumentParsing"} -> value \in BOOLEAN
    [] key = "wrappers" -> ValidWrappers(value)
    [] OTHER -> FALSE
ValidateShellMutationDetection(object) ==
  Kept(object, DetectionField,
       LAMBDA k, v : IF k = "wrappers" THEN [i \in 1..Len(v) |-> [prefix |-> v[i].prefix]]
                     ELSE v)

(* validateCustomMutationToolEntry(): exactly one of pathField and pathFields *)
(* (here, how many were given and the fields they name); a tool of Pi's own,  *)
(* or one declared before, is refused, and so is the whole array.             *)
ValidCustomTool(spec) ==
  spec # Bad /\ spec.toolName \notin PiTools \cup {"", Bad}
    /\ spec.given = 1 /\ Words(spec.fields) /\ ~spec.extra
ValidCustomTools(value) ==
  value # Bad /\ \A i \in 1..Len(value) :
    ValidCustomTool(value[i]) /\ \A j \in 1..(i - 1) : value[j].toolName # value[i].toolName

ChannelField(key, value) ==
  CASE key = "enabled" -> value \in BOOLEAN
    [] key = "channel" -> value \notin {Bad, ""}
    [] OTHER -> FALSE
ValidateEventBusMutationChannel(object) == Kept(object, ChannelField, LAMBDA k, v : v)

OutputField(key, value) ==
  CASE key = "onFailure" -> value \in {"none", "stderr", "both"}
    [] key \in {"maxBytes", "maxLines"} -> value # Bad /\ value \in Nat
    [] OTHER -> FALSE
ValidateFormatterOutput(object) == Kept(object, OutputField, LAMBDA k, v : v)

(* ----- a file: validateConfigObject() ------------------------------------- *)
Objects == {"formatters", "chains", "shellMutationDetection", "eventBusMutationChannel",
            "formatterOutput"}
ValidFor(key, value) ==
  CASE key \in Objects -> value # Bad
    [] key = "commandTimeoutMs" -> ValidTimeout(value)
    [] key = "hideSummariesInTui" -> value \in BOOLEAN
    [] key = "formatScope" -> value # Bad /\ ValidScope(value)
    [] key = "customMutationTools" -> ValidCustomTools(value)
    [] OTHER -> FALSE

DefaultFormatters ==
  [name \in {"prettier", "markdownlint-cli2"} |->
     [command |-> <<name, IF name = "prettier" THEN "--write" ELSE "--fix">>, disabled |-> FALSE]]

\* A chain may name the defaults, this file's formatters and the built-ins:
\* not a formatter only the other file declares.
Known(file) ==
  DOMAIN DefaultFormatters \cup Builtins
    \cup IF "formatters" \in DOMAIN file /\ file.formatters # Bad
         THEN DOMAIN ValidateFormatters(file.formatters) ELSE {}

ReadKey(file, key) ==
  LET value == file[key]
  IN  CASE key = "formatters" -> ValidateFormatters(value)
        [] key = "chains" -> ValidateChains(value, Known(file))
        [] key = "shellMutationDetection" -> ValidateShellMutationDetection(value)
        [] key = "eventBusMutationChannel" -> ValidateEventBusMutationChannel(value)
        [] key = "formatterOutput" -> ValidateFormatterOutput(value)
        [] OTHER -> value
ValidateConfig(file) ==
  [k \in {k \in DOMAIN file : ValidFor(k, file[k])} |-> ReadKey(file, k)]

(* ----- the layers: mergeUserConfigs(), loadAutoformatConfig() ------------- *)
Entry(config, key) == IF key \in DOMAIN config THEN config[key] ELSE None

\* { ...base, ...overrides }
Spread(base, overrides) ==
  [k \in DOMAIN base \cup DOMAIN overrides |->
     IF k \in DOMAIN overrides THEN overrides[k] ELSE base[k]]
\* Objects are merged key by key; an array or a scalar of the project replaces.
MergeUserConfigs(base, overrides) ==
  [k \in DOMAIN base \cup DOMAIN overrides |->
     IF k \in Objects THEN Spread(Entry(base, k), Entry(overrides, k))
     ELSE Spread(base, overrides)[k]]

DefaultConfig ==
  [formatScope |-> [kind |-> "repoRoot", roots |-> <<>>],
   shellMutationDetection |-> [enabled |-> FALSE, argumentParsing |-> TRUE, wrappers |-> <<>>],
   eventBusMutationChannel |-> [enabled |-> TRUE, channel |-> "autoformat:touched"],
   customMutationTools |-> <<>>, formatters |-> DefaultFormatters, chains |-> None,
   formatterOutput |-> [onFailure |-> "none", maxBytes |-> 4096, maxLines |-> 40],
   commandTimeoutMs |-> 10000, hideSummariesInTui |-> FALSE]
CreateFormatterConfig(user) == MergeUserConfigs(DefaultConfig, user)

Layer(file) == IF file = Unreadable THEN None ELSE ValidateConfig(file)
\* A file that is missing or does not parse is skipped.
LoadAutoformatConfig(global, project) ==
  CreateFormatterConfig(MergeUserConfigs(Layer(global), Layer(project)))
=============================================================================
