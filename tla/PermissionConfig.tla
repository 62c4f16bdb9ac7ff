-------------------------- MODULE PermissionConfig --------------------------
(* What the permission system makes of its configuration files: the schema    *)
(* one file is held to, the layers merged into the settings in force, the     *)
(* keys of its dialog, and what the policy loader reads of the same files.    *)
(*                                                                            *)
(* A parsed value is tagged with its JSON type: <<"boolean", b>>,             *)
(* <<"number", n>>, <<"string", s>>, <<"array", seq>>, <<"object", function>>. *)
(* A surface key is a sequence of parts, as in PermissionPolicy.  A file is    *)
(* <<>> when it is missing, otherwise <<parsed value>>; <<"broken">> stands    *)
(* for text that does not parse.                                              *)
EXTENDS Integers, Sequences, FiniteSets, TLC

Missing == <<>>
Broken == <<<<"broken">>>>
NoSettings == <<>>             \* the empty object
\* {...base, ...over}
Spread(base, over) ==
  [key \in DOMAIN base \cup DOMAIN over |-> IF key \in DOMAIN over THEN over[key] ELSE base[key]]

-----------------------------------------------------------------------------
(* The schema of one file. *)

Flags == {"debugLog", "permissionReviewLog", "yoloMode", "doublePressToConfirm"}
Counts == {"forwardingTimeoutMs", "promptTimeoutMs", "promptMaxRows", "promptFieldMaxWidth",
           "reviewLogFieldMaxWidth", "toolInputPreviewMaxLength", "toolTextSummaryMaxLength"}
Lists == {"piInfrastructureReadPaths", "authorizerChain"}
Actions == <<"approve", "approveSession", "approveSessionBoth", "deny", "denyWithReason">>
ActionSet == {Actions[i] : i \in DOMAIN Actions}

Is(type, v) == v[1] = type
Nonempty(v) == Is("string", v) /\ v[2] # ""
ObjectOf(v, Key(_), Value(_)) ==
  Is("object", v) /\ \A k \in DOMAIN v[2] : Key(k) /\ Value(v[2][k])
ArrayOf(v, Item(_)) == Is("array", v) /\ \A i \in DOMAIN v[2] : Item(v[2][i])
\* A strict object: no other keys, and each present one valid.
Strict(v, Valid(_, _), keys, required) ==
  /\ Is("object", v)
  /\ DOMAIN v[2] \subseteq keys /\ required \subseteq DOMAIN v[2]
  /\ \A k \in DOMAIN v[2] : Valid(k, v[2][k])

PermissionState(v) == Is("string", v) /\ v[2] \in {"allow", "deny", "ask"}
DenyWithReason(v) ==
  LET Field(k, x) == IF k = "action" THEN x = <<"string", "deny">> ELSE Is("string", x)
  IN  Strict(v, Field, {"action", "reason"}, {"action"})
PatternValue(v) == PermissionState(v) \/ DenyWithReason(v)
SurfaceValue(v) ==
  LET Pattern(k) == k # ""
  IN  PermissionState(v) \/ ObjectOf(v, Pattern, PatternValue)

\* The directional members of the families are the only keys of their shape.
UsableSurface(key) ==
  /\ key # <<>>
  /\ (Len(key) > 1 /\ key[1] \in {"path", "external_directory"}) => key[2] \in {"_read", "_write"}
Permission(v) == ObjectOf(v, UsableSurface, SurfaceValue)

DialogKeys(v) ==
  LET Key(k, x) == Is("string", x) IN Strict(v, Key, ActionSet, {})
ShellTools(v) ==
  LET Name(k) == k # ""
      Argument(k, x) == Nonempty(x)
      Alias(x) == Strict(x, Argument, {"commandArgument", "workdirArgument"}, {"commandArgument"})
  IN  ObjectOf(v, Name, Alias)
DeclaredEffects(v) ==
  LET Effect(x) == Is("string", x) /\ x[2] \in {"read", "write"}
  IN  Effect(v) \/ ArrayOf(v, Effect)
\* Entries nest by subcommand; one level stands for all of them.  A command is
\* a bare word, never a path.
CommandEffects(v) ==
  LET Command(k) == k # "" /\ k # "a/path"
      Word(k) == k # ""
      Option(x) == Nonempty(x)
      Field(k, x) == CASE k = "effects" -> DeclaredEffects(x)
                       [] k = "unlessOption" -> ArrayOf(x, Option)
                       [] OTHER -> ObjectOf(x, Word, DeclaredEffects)
      Entry(x) == Strict(x, Field, {"effects", "unlessOption", "subcommands"}, {})
  IN  ObjectOf(v, Command, Entry)

ValidSetting(key, v) ==
  LET Channel(x) == Is("string", x) /\ x[2] \in {"bell", "osc9", "osc777"}
  IN  CASE key \in Flags -> Is("boolean", v)
        [] key \in Counts -> Is("number", v) /\ v[2] >= 1
        [] key \in Lists -> ArrayOf(v, Nonempty)
        [] key = "promptNotifications" -> ArrayOf(v, Channel)
        [] key = "permissionDialogKeys" -> DialogKeys(v)
        [] key = "permission" -> Permission(v)
        [] key = "shellTools" -> ShellTools(v)
        [] key = "commandEffects" -> CommandEffects(v)
        [] OTHER -> key = "$schema" /\ Is("string", v)

\* What is wrong with a parsed file: the keys that are refused.
ConfigIssues(v) ==
  IF ~Is("object", v) THEN {"(root)"}
  ELSE {key \in DOMAIN v[2] : ~ValidSetting(key, v[2][key])}

\* One refused key costs the file all of its settings.
ValidateUnifiedConfig(v) ==
  LET issues == ConfigIssues(v)
  IN  [config |-> IF issues = {} THEN v[2] ELSE NoSettings, issues |-> issues]

LoadUnifiedConfig(file) ==
  CASE file = Missing -> [config |-> NoSettings, issues |-> {}]
    [] file = Broken -> [config |-> NoSettings, issues |-> {"unreadable"}]
    [] OTHER -> ValidateUnifiedConfig(file[1])

-----------------------------------------------------------------------------
(* The layers. *)

Replaced == Flags \cup Counts \cup Lists \cup {"permissionDialogKeys", "promptNotifications"}

MergeSurface(base, over) ==
  IF Is("object", base) /\ Is("object", over) THEN <<"object", Spread(base[2], over[2])>> ELSE over
MergeFlatPermissions(base, over) ==
  [key \in DOMAIN base \cup DOMAIN over |->
     IF key \in DOMAIN base \cap DOMAIN over THEN MergeSurface(base[key], over[key])
     ELSE IF key \in DOMAIN over THEN over[key] ELSE base[key]]

\* The schema URI and the declared effects are not among the merged settings.
MergeUnifiedConfigs(base, over) ==
  LET both == DOMAIN base \cap DOMAIN over
      kept == (DOMAIN base \cup DOMAIN over) \cap (Replaced \cup {"shellTools", "permission"})
  IN  [key \in kept |->
         CASE key = "shellTools" /\ key \in both -> <<"object", Spread(base[key][2], over[key][2])>>
           [] key = "permission" /\ key \in both ->
                <<"object", MergeFlatPermissions(base[key][2], over[key][2])>>
           [] OTHER -> Spread(base, over)[key]]

\* A command's last declaration replaces the earlier ones, whole.
FoldDeclaredCommandEffects(base, config, scope) ==
  IF "commandEffects" \notin DOMAIN config THEN base
  ELSE LET layer == config["commandEffects"][2]
       IN  Spread(base, [c \in DOMAIN layer |-> [scope |-> scope, entry |-> layer[c]]])

\* As if a project's legacy file were read before it is trusted.
LayersWithLegacy(trusted) ==
  <<"legacyGlobal", "legacyExtension", "global", "legacyProject">>
     \o (IF trusted THEN <<"project">> ELSE <<>>)
\* The files in the order they are laid over each other; those of a project
\* that is not trusted are not read.
Layers(trusted) ==
  <<"legacyGlobal", "legacyExtension", "global">>
     \o (IF trusted THEN <<"legacyProject", "project">> ELSE <<>>)
LegacyLayers == {"legacyGlobal", "legacyExtension", "legacyProject"}
ScopeOf(layer) == IF layer \in {"legacyProject", "project"} THEN "project" ELSE "global"

DetectPermissiveBashFallback(merged) ==
  LET permission == IF "permission" \in DOMAIN merged THEN merged["permission"][2] ELSE NoSettings
      bash == IF <<"bash">> \in DOMAIN permission THEN permission[<<"bash">>] ELSE <<"none">>
  IN  /\ <<"*">> \in DOMAIN permission /\ permission[<<"*">>] = <<"string", "allow">>
      /\ ~Is("string", bash) /\ ~(Is("object", bash) /\ "*" \in DOMAIN bash[2])
DetectDeprecatedPreviewCaps(merged) ==
  {"toolInputPreviewMaxLength", "toolTextSummaryMaxLength"} \cap DOMAIN merged # {}

-----------------------------------------------------------------------------
(* The keys of the dialog. *)

DefaultKeys == [approve |-> "y", approveSession |-> "s", approveSessionBoth |-> "b",
                deny |-> "n", denyWithReason |-> "r"]
ReservedKeys == {"j", "k"}
\* One lowercase letter, digit or symbol; "+" and uppercase are not to be told
\* from modifiers.
BindableCharacters ==
  {"a", "b", "c", "d", "e", "f", "g", "h", "i", "j", "k", "l", "m", "n", "o", "p", "q", "r", "s",
   "t", "u", "v", "w", "x", "y", "z", "0", "1", "2", "3", "4", "5", "6", "7", "8", "9",
   "`", "-", "=", "[", "]", "\\", ";", "'", ",", ".", "/", "!", "@", "#", "$", "%", "^", "&", "*",
   "(", ")", "_", "|", "~", "{", "}", ":", "<", ">", "?"}
Bindable(c) == c \in BindableCharacters

KeysWith(overrides) == Spread(DefaultKeys, overrides)
\* The characters two actions would answer to.
Contested(overrides) ==
  LET keys == KeysWith(overrides)
  IN  {c \in {keys[a] : a \in ActionSet} :
         Cardinality({a \in ActionSet : keys[a] = c}) > 1}
DropContested(overrides) ==
  [a \in {x \in DOMAIN overrides : overrides[x] \notin Contested(overrides)} |-> overrides[a]]
\* A dropped override gives its action the default key back, which may be
\* what another override had taken.
RoundsOfDropping(overrides, rounds) ==
  LET after[n \in 0..rounds] == IF n = 0 THEN overrides ELSE DropContested(after[n - 1])
  IN  after[rounds]

Overrides(config) ==
  IF "permissionDialogKeys" \in DOMAIN config
  THEN LET keys == config["permissionDialogKeys"][2] IN [a \in DOMAIN keys |-> keys[a][2]]
  ELSE NoSettings
ResolveWithin(rounds, config) ==
  LET asked == Overrides(config)
      usable == [a \in {x \in DOMAIN asked : Bindable(asked[x]) /\ asked[x] \notin ReservedKeys}
                   |-> asked[a]]
      accepted == RoundsOfDropping(usable, rounds)
  IN  [keys |-> KeysWith(accepted), issues |-> DOMAIN asked \ DOMAIN accepted]
\* A single round: what a dropped override displaces is not looked at again.
ResolveDialogKeysOnce(config) == ResolveWithin(1, config)
ResolveDialogKeys(config) == ResolveWithin(Len(Actions), config)

-----------------------------------------------------------------------------
(* Everything read and merged, and the settings in force. *)

MergeReads(reads) ==
  LET merged[n \in 0..Len(reads)] ==
        IF n = 0 THEN NoSettings ELSE MergeUnifiedConfigs(merged[n - 1], reads[n].config)
  IN  merged[Len(reads)]
FoldDeclarations(reads, layers) ==
  LET declared[n \in 0..Len(reads)] ==
        IF n = 0 THEN NoSettings
        ELSE FoldDeclaredCommandEffects(declared[n - 1], reads[n].config, ScopeOf(layers[n]))
  IN  declared[Len(reads)]

LoadAndMergeConfigs(files, trusted) ==
  LET layers == Layers(trusted)
      reads == [n \in DOMAIN layers |-> LoadUnifiedConfig(files[layers[n]])]
      all == MergeReads(reads)
  IN  [merged |-> all, declared |-> FoldDeclarations(reads, layers),
       \* A legacy file is named, but what is wrong in it is not.
       issues |-> UNION {IF layers[n] \in LegacyLayers
                         THEN IF files[layers[n]] = Missing THEN {} ELSE {<<"legacy", layers[n]>>}
                         ELSE {<<layers[n], i>> : i \in reads[n].issues} : n \in DOMAIN layers}
                  \cup (IF DetectPermissiveBashFallback(all) THEN {<<"bash fallback">>} ELSE {})
                  \cup (IF DetectDeprecatedPreviewCaps(all) THEN {<<"deprecated">>} ELSE {})
                  \cup {<<"dialog key", a>> : a \in ResolveDialogKeys(all).issues}]

Flag(raw, key, default) == IF key \in DOMAIN raw THEN raw[key][2] ELSE default
Normalize(raw) ==
  Spread([key \in DOMAIN raw \cap (Replaced \cup {"shellTools"}) |-> raw[key]],
         [key \in Flags |->
            <<"boolean", Flag(raw, key, key \in {"permissionReviewLog", "doublePressToConfirm"})>>])
DefaultSettings == Normalize(NoSettings)
IsOn(config, key) == config[key][2]

\* Declarations for words the core or a wrapper decides are ignored, and said so.
IgnoredDeclarations(declared, coreWords, wrapperWords) ==
  {<<"core word", c>> : c \in DOMAIN declared \cap coreWords}
    \cup {<<"wrapper", c>> : c \in DOMAIN declared \cap wrapperWords}

-----------------------------------------------------------------------------
(* What the policy loader takes from a file: a project's malformed file is    *)
(* marked, the global one is only empty; an agent's frontmatter keeps what is *)
(* well formed of it.                                                         *)

PermissionOf(config) == IF "permission" \in DOMAIN config THEN config["permission"][2] ELSE NoSettings
LooseDeny(v) ==
  /\ Is("object", v) /\ "action" \in DOMAIN v[2] /\ v[2]["action"] = <<"string", "deny">>
  /\ "reason" \in DOMAIN v[2] => Is("string", v[2]["reason"])
NormalizeFlatPermissionValue(v) ==
  LET Pattern(x) == PermissionState(x) \/ LooseDeny(x)
      Kept(x) == IF Is("object", x)
                 THEN <<"object", [p \in {q \in DOMAIN x[2] : Pattern(x[2][q])} |-> x[2][p]]>>
                 ELSE x
      Keeps(x) == PermissionState(x) \/ (Is("object", x) /\ DOMAIN Kept(x)[2] # {})
  IN  IF ~Is("object", v) THEN NoSettings
      ELSE [key \in {k \in DOMAIN v[2] : Keeps(v[2][k])} |-> Kept(v[2][key])]

LoadGlobalPolicy(file) ==
  [permission |-> PermissionOf(LoadUnifiedConfig(file).config), invalid |-> FALSE]
LoadProjectPolicy(file) ==
  LET read == LoadUnifiedConfig(file)
  IN  [permission |-> PermissionOf(read.config), invalid |-> read.issues # {}]
LoadAgentPolicy(file) ==
  CASE file = Missing -> [permission |-> NoSettings, invalid |-> FALSE]
    [] file = Broken -> [permission |-> NoSettings, invalid |-> TRUE]
    [] OTHER -> [permission |-> IF "permission" \in DOMAIN file[1][2]
                                THEN NormalizeFlatPermissionValue(file[1][2]["permission"])
                                ELSE NoSettings,
                 invalid |-> FALSE]
=============================================================================
