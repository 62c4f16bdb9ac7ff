---------------------------- MODULE SettingsStore ----------------------------
(* The permission system's settings over the life of a process: the files the *)
(* operator and a project hold, read again at every turn, the settings dialog *)
(* that writes the global file, and the trust a project has.                  *)
EXTENDS PermissionConfig

CONSTANTS Files,            \* layer -> the contents an edit may give it
          Starts,           \* the files there may be at first
          CoreWords,        \* commands whose effects the core decides
          WrapperWords,
          MaxEdits          \* bound: edits of files, grants of trust, uses of the dialog

AllLayers == {"legacyGlobal", "legacyExtension", "global", "legacyProject", "project",
              "agent", "projectAgent"}
ASSUME StartsAssumption == \A f \in Starts : DOMAIN f = AllLayers
ProjectLayers == {"legacyProject", "project", "projectAgent"}

VARIABLES files,            \* layer -> content
          trusted,          \* the project is trusted
          policyTrusted,    \* as it was when the policy loader was last set up
          current,          \* the settings in force
          declared,         \* the declared command effects in force
          issues,
          modal,            \* the settings dialog: <<>>, or the settings it shows
          edits,
          twin              \* history: the same without any file of a project

settingsVars == <<files, trusted, policyTrusted, current, declared, issues, modal, edits, twin>>

\* What "twin" follows: another store whose project is empty.
View(f, c, d, m) == [files |-> f, current |-> c, declared |-> d, modal |-> m]
Emptied(f) == [layer \in DOMAIN f |-> IF layer \in ProjectLayers THEN Missing ELSE f[layer]]

SettingsInit ==
  /\ files \in Starts
  /\ trusted \in BOOLEAN
  /\ policyTrusted = FALSE
  /\ current = DefaultSettings /\ declared = NoSettings /\ issues = {}
  /\ edits = 0 /\ modal = <<>>
  /\ twin = View(Emptied(files), DefaultSettings, NoSettings, <<>>)

Edited == edits < MaxEdits /\ edits' = edits + 1

EditFile(layer) ==
  /\ Edited
  /\ \E content \in Files[layer] :
       /\ content # files[layer]
       /\ files' = [files EXCEPT ![layer] = content]
       /\ twin' = IF layer \in ProjectLayers THEN twin ELSE [twin EXCEPT !.files[layer] = content]
  /\ UNCHANGED <<trusted, policyTrusted, current, declared, issues, modal>>

TrustProject ==
  /\ Edited
  /\ ~trusted /\ trusted' = TRUE
  /\ UNCHANGED <<files, policyTrusted, current, declared, issues, modal, twin>>

\* The files are read again; an untrusted project's are withheld.
Refreshed ==
  LET read == LoadAndMergeConfigs(files, trusted)
      theirs == LoadAndMergeConfigs(twin.files, trusted)
  IN  /\ current' = Normalize(read.merged)
      /\ declared' = read.declared
      /\ issues' = read.issues \cup IgnoredDeclarations(read.declared, CoreWords, WrapperWords)
      /\ twin' = View(twin.files, Normalize(theirs.merged), theirs.declared, twin.modal)

\* The settings are saved by writing three of them over what the global file
\* says, and are then in force.
Saved(base, next) ==
  Spread(LoadUnifiedConfig(base).config,
         [key \in {"debugLog", "permissionReviewLog", "yoloMode"} |-> Normalize(next)[key]])
Written(base, next) == <<<<"object", Saved(base, next)>>>>

\* The dialog keeps the settings it was opened with until it saves.
OpenSettingsModal ==
  /\ modal = <<>>
  /\ modal' = <<current>>
  /\ twin' = [twin EXCEPT !.modal = <<twin.current>>]
  /\ UNCHANGED <<files, trusted, policyTrusted, current, declared, issues, edits>>
CloseSettingsModal ==
  /\ modal # <<>>
  /\ modal' = <<>> /\ twin' = [twin EXCEPT !.modal = <<>>]
  /\ UNCHANGED <<files, trusted, policyTrusted, current, declared, issues, edits>>

Changed(config, key, value) == Normalize([config EXCEPT ![key] = <<"boolean", value>>])
ApplySetting(key, value) ==
  /\ modal # <<>>
  /\ Edited
  /\ LET next == Changed(modal[1], key, value)
         theirs == Changed(twin.modal[1], key, value)
     IN  \/ /\ files' = [files EXCEPT !["global"] = Written(files["global"], next)]
            /\ current' = next /\ modal' = <<next>>
            /\ twin' = View([twin.files EXCEPT !["global"] = Written(twin.files["global"], theirs)],
                            theirs, twin.declared, <<theirs>>)
         \/ \* the file cannot be written
            /\ UNCHANGED <<files, current>>
            /\ modal' = <<current>> /\ twin' = [twin EXCEPT !.modal = <<twin.current>>]
  /\ UNCHANGED <<trusted, policyTrusted, declared, issues>>
\* "reset" saves the defaults, which name no key, no link and no timeout.
ResetSettings ==
  /\ Edited
  /\ files' = [files EXCEPT !["global"] = Written(files["global"], DefaultSettings)]
  /\ current' = DefaultSettings
  /\ twin' = [twin EXCEPT !.files["global"] = Written(twin.files["global"], DefaultSettings),
                          !.current = DefaultSettings]
  /\ UNCHANGED <<trusted, policyTrusted, declared, issues, modal>>

\* What the policy loader finds, at every verdict.
Policies(f, ofProject) ==
  <<LoadGlobalPolicy(f["global"]),
    IF ofProject THEN LoadProjectPolicy(f["project"]) ELSE LoadProjectPolicy(Missing),
    LoadAgentPolicy(f["agent"]),
    IF ofProject THEN LoadAgentPolicy(f["projectAgent"]) ELSE LoadAgentPolicy(Missing)>>

\* A project that was not trusted leaves no trace: the settings in force, the
\* declared effects, the policy and the operator's own file are those of a
\* store without the project, whatever was edited, saved and reset since.
UntrustedProjectIsUnread ==
  ~trusted =>
    /\ current = twin.current /\ declared = twin.declared
    /\ files["global"] = twin.files["global"]
    /\ Policies(files, policyTrusted) = Policies(twin.files, policyTrusted)

\* Whatever keys are configured, every decision of the dialog has a key of its
\* own that does not move the highlight, and a key the operator chose is only
\* refused when it cannot be typed, is reserved, or would be another's too.
KeysDecideOneThing ==
  LET keys == ResolveDialogKeys(current).keys
      asked == Overrides(current)
  IN  /\ \A a, b \in ActionSet : keys[a] = keys[b] => a = b
      /\ \A a \in ActionSet : keys[a] \notin ReservedKeys
      /\ \A a \in DOMAIN asked : keys[a] = asked[a] \/ ~Bindable(asked[a])
                                 \/ asked[a] \in ReservedKeys
                                 \/ \E b \in ActionSet \ {a} : asked[a] \in {keys[b], KeysWith(asked)[b]}
=============================================================================
