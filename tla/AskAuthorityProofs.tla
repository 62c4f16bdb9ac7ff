-------------------------- MODULE AskAuthorityProofs --------------------------
(***************************************************************************)
(* Settings, authority and dialog, for every set of files, of requests and *)
(* of keys, and any number of sessions, edits and key presses.             *)
(*                                                                         *)
(* 1. Whatever keys are configured, the dialog's decisions stay apart: a   *)
(*    fact about resolveDialogKeys() and so about every state.             *)
(* 2. TwinInv, inductive: as long as the project is not trusted the store  *)
(*    and its twin, whose project is empty, agree on all else.             *)
(* 3. JudgeInv, inductive: a judge that is loaded is registered, or will   *)
(*    be before the first request of its session.                          *)
(* 4. PromptInv, inductive: the decision that is armed is the one the last *)
(*    key that counts is bound to.                                         *)
(***************************************************************************)
EXTENDS AskAuthority, FiniteSetTheorems, TLAPS

-----------------------------------------------------------------------------
(* The keys of the dialog. *)

(* Which keys two actions answer to.                                       *)
Clash(overrides, a, b) == a # b /\ KeysWith(overrides)[a] = KeysWith(overrides)[b]

LEMMA KeyOf ==
  ASSUME NEW overrides, NEW a \in ActionSet
  PROVE  KeysWith(overrides)[a] = IF a \in DOMAIN overrides THEN overrides[a] ELSE DefaultKeys[a]
<1>1. a \in DOMAIN DefaultKeys
  BY DEF DefaultKeys, ActionSet, Actions
<1>2. QED
  BY <1>1 DEF KeysWith, Spread

LEMMA DefaultsDiffer ==
  /\ \A a, b \in ActionSet : DefaultKeys[a] = DefaultKeys[b] => a = b
  /\ \A a \in ActionSet : Bindable(DefaultKeys[a]) /\ DefaultKeys[a] \notin ReservedKeys
<1>1. ActionSet = {"approve", "approveSession", "approveSessionBoth", "deny", "denyWithReason"}
  BY DEF ActionSet, Actions
<1>2. /\ DefaultKeys["approve"] = "y" /\ DefaultKeys["approveSession"] = "s"
      /\ DefaultKeys["approveSessionBoth"] = "b" /\ DefaultKeys["deny"] = "n"
      /\ DefaultKeys["denyWithReason"] = "r"
  BY DEF DefaultKeys
<1>3. \A a \in ActionSet : DefaultKeys[a] \in {"y", "s", "b", "n", "r"}
  BY <1>1, <1>2
<1>4. \A a, b \in ActionSet : DefaultKeys[a] = DefaultKeys[b] => a = b
  BY <1>1, <1>2
<1>5. QED
  BY <1>3, <1>4 DEF Bindable, BindableCharacters, ReservedKeys

LEMMA ActionsCounted == IsFiniteSet(ActionSet) /\ Cardinality(ActionSet) = 5
<1>1. ActionSet = {"approve"} \cup {"approveSession"} \cup {"approveSessionBoth"} \cup {"deny"}
                    \cup {"denyWithReason"}
  BY DEF ActionSet, Actions
<1> DEFINE S1 == {"approve"}
           S2 == S1 \cup {"approveSession"}
           S3 == S2 \cup {"approveSessionBoth"}
           S4 == S3 \cup {"deny"}
<1>2. IsFiniteSet(S1) /\ Cardinality(S1) = 1
  BY FS_Singleton
<1>3. IsFiniteSet(S2) /\ Cardinality(S2) = 2
  <2>1. "approveSession" \notin S1
    OBVIOUS
  <2> HIDE DEF S1
  <2>2. QED
    BY <2>1, <1>2, FS_AddElement
<1>4. IsFiniteSet(S3) /\ Cardinality(S3) = 3
  <2>1. "approveSessionBoth" \notin S2
    OBVIOUS
  <2> HIDE DEF S2
  <2>2. QED
    BY <2>1, <1>3, FS_AddElement
<1>5. IsFiniteSet(S4) /\ Cardinality(S4) = 4
  <2>1. "deny" \notin S3
    OBVIOUS
  <2> HIDE DEF S3
  <2>2. QED
    BY <2>1, <1>4, FS_AddElement
<1>6. "denyWithReason" \notin S4 /\ ActionSet = S4 \cup {"denyWithReason"}
  BY <1>1
<1> HIDE DEF S4
<1>7. QED
  BY <1>5, <1>6, FS_AddElement

(* A character is contested if two actions would answer to it.             *)
LEMMA ContestedByTwo ==
  ASSUME NEW overrides, NEW c
  PROVE  c \in Contested(overrides) <=>
           \E a, b \in ActionSet : Clash(overrides, a, b) /\ KeysWith(overrides)[a] = c
<1> DEFINE S == {a \in ActionSet : KeysWith(overrides)[a] = c}
<1>1. IsFiniteSet(S) /\ Cardinality(S) \in Nat
  BY ActionsCounted, FS_Subset, FS_CardinalityType
<1>2. c \in Contested(overrides) <=> S # {} /\ Cardinality(S) > 1
  BY DEF Contested
<1>3. Cardinality(S) > 1 <=> \E a, b \in S : a # b
  <2> HIDE DEF S
  <2>1. (Cardinality(S) = 0 <=> S = {}) /\ (Cardinality(S) = 1 <=> \E x : S = {x})
    BY <1>1, FS_EmptySet, FS_Singleton
  <2>2. CASE S = {}
    BY <2>1, <2>2
  <2>3. CASE \E x : S = {x}
    BY <2>1, <2>3
  <2>4. CASE S # {} /\ ~ \E x : S = {x}
    <3>1. Cardinality(S) > 1
      BY <1>1, <2>1, <2>4
    <3>2. PICK a \in S : TRUE
      BY <2>4
    <3>3. \E b \in S : b # a
      BY <3>2, <2>4
    <3>4. QED
      BY <3>1, <3>2, <3>3
  <2>5. QED
    BY <2>2, <2>3, <2>4
<1>4. (\E a, b \in S : a # b) <=>
        \E a, b \in ActionSet : Clash(overrides, a, b) /\ KeysWith(overrides)[a] = c
  BY DEF Clash
<1>5. QED
  BY <1>2, <1>3, <1>4

(* Without a contested character no two actions share a key.               *)
LEMMA QuietKeysDiffer ==
  ASSUME NEW overrides
  PROVE  Contested(overrides) = {} <=> \A a, b \in ActionSet : ~Clash(overrides, a, b)
  BY ContestedByTwo, Zenon

(* Why an override that is wanted is not in force: another action's        *)
(* override is for the same key, or it is the default of an action that    *)
(* has no override in force either.                                        *)
Explained(wanted, inForce, a) ==
  \E b \in ActionSet \ {a} :
    \/ b \in DOMAIN wanted /\ wanted[b] = wanted[a]
    \/ b \notin DOMAIN inForce /\ DefaultKeys[b] = wanted[a]

(* What is left of them after n rounds: either nothing is contested, or    *)
(* each round has dropped the override of some action.                     *)
Dropped(wanted, left, n) ==
  /\ DOMAIN left \subseteq DOMAIN wanted /\ \A x \in DOMAIN left : left[x] = wanted[x]
  /\ \A a \in DOMAIN wanted \ DOMAIN left : Explained(wanted, left, a)
  /\ Contested(left) = {} \/ Cardinality(DOMAIN left \cap ActionSet) <= 5 - n

LEMMA DroppedOnce ==
  ASSUME NEW wanted, NEW left, NEW n \in 0 .. 4, Dropped(wanted, left, n)
  PROVE  Dropped(wanted, DropContested(left), n + 1)
<1> DEFINE next == DropContested(left)
<1>1. /\ DOMAIN next = {x \in DOMAIN left : left[x] \notin Contested(left)}
      /\ \A x \in DOMAIN next : next[x] = left[x]
  BY DEF DropContested
<1> HIDE DEF next
<1>2. DOMAIN next \subseteq DOMAIN wanted /\ \A x \in DOMAIN next : next[x] = wanted[x]
  BY <1>1 DEF Dropped
<1>3. ASSUME NEW a \in DOMAIN wanted \ DOMAIN next PROVE Explained(wanted, next, a)
  <2>1. CASE a \notin DOMAIN left
    BY <2>1, <1>1 DEF Dropped, Explained
  <2>2. CASE a \in DOMAIN left
    <3>1. left[a] \in Contested(left) /\ left[a] = wanted[a]
      BY <2>2, <1>1, <1>3 DEF Dropped
    <3>2. PICK c, d \in ActionSet : Clash(left, c, d) /\ KeysWith(left)[c] = left[a]
      BY <3>1, ContestedByTwo
    <3>3. PICK b \in ActionSet \ {a} : KeysWith(left)[b] = wanted[a]
      BY <3>1, <3>2 DEF Clash
    <3>4. IF b \in DOMAIN left THEN wanted[b] = wanted[a] /\ b \in DOMAIN wanted
          ELSE DefaultKeys[b] = wanted[a] /\ b \notin DOMAIN next
      BY <3>3, <1>1, KeyOf DEF Dropped
    <3>5. QED
      BY <3>4 DEF Explained
  <2>3. QED
    BY <2>1, <2>2
<1>4. ASSUME Contested(left) = {} PROVE Contested(next) = {}
  <2>1. DOMAIN next = DOMAIN left
    BY <1>1, <1>4
  <2>2. \A a \in ActionSet : KeysWith(next)[a] = KeysWith(left)[a]
    BY <2>1, <1>1, KeyOf
  <2>3. QED
    BY <2>2, <1>4, QuietKeysDiffer DEF Clash
<1>5. ASSUME Contested(left) # {} PROVE Cardinality(DOMAIN next \cap ActionSet) <= 5 - (n + 1)
  <2>1. PICK a, b \in ActionSet : Clash(left, a, b)
    BY <1>5, QuietKeysDiffer
  <2>2. KeysWith(left)[a] \in Contested(left) /\ KeysWith(left)[b] \in Contested(left)
    BY <2>1, ContestedByTwo DEF Clash
  <2>3. PICK c \in ActionSet : c \in DOMAIN left /\ left[c] \in Contested(left)
    <3>1. a \in DOMAIN left \/ b \in DOMAIN left
      BY <2>1, KeyOf, DefaultsDiffer DEF Clash
    <3>2. QED
      BY <3>1, <2>2, KeyOf
  <2> DEFINE had == DOMAIN left \cap ActionSet
             has == DOMAIN next \cap ActionSet
  <2>4. IsFiniteSet(had) /\ Cardinality(had) \in Nat
    BY ActionsCounted, FS_Subset, FS_CardinalityType
  <2>5. Cardinality(had) <= 5 - n
    BY <1>5 DEF Dropped
  <2>6. has \subseteq had \ {c} /\ c \in had
    BY <2>3, <1>1
  <2> HIDE DEF had, has
  <2>7. IsFiniteSet(had \ {c}) /\ Cardinality(had \ {c}) = Cardinality(had) - 1
    BY <2>4, <2>6, FS_RemoveElement
  <2>8. IsFiniteSet(has) /\ Cardinality(has) <= Cardinality(had \ {c})
    BY <2>6, <2>7, FS_Subset
  <2>9. Cardinality(has) \in Nat
    BY <2>8, FS_CardinalityType
  <2>10. Cardinality(has) <= 5 - (n + 1)
    BY <2>4, <2>5, <2>7, <2>8, <2>9
  <2>11. QED
    BY <2>10 DEF has
<1>6. QED
  BY <1>2, <1>3, <1>4, <1>5 DEF Dropped, next

(* Five rounds are enough for five actions.                                *)
LEMMA FiveRounds ==
  ASSUME NEW wanted
  PROVE  Dropped(wanted, RoundsOfDropping(wanted, 5), 5)
<1> DEFINE d1 == DropContested(wanted)
           d2 == DropContested(d1)
           d3 == DropContested(d2)
           d4 == DropContested(d3)
           d5 == DropContested(d4)
           after == [n \in 0 .. 5 |-> IF n = 0 THEN wanted ELSE IF n = 1 THEN d1
                                      ELSE IF n = 2 THEN d2 ELSE IF n = 3 THEN d3
                                      ELSE IF n = 4 THEN d4 ELSE d5]
           Rounds(f) == f = [n \in 0 .. 5 |-> IF n = 0 THEN wanted ELSE DropContested(f[n - 1])]
           rounds == CHOOSE f : Rounds(f)
<1>1. Rounds(after)
  <2> HIDE DEF d1, d2, d3, d4, d5
  <2>1. /\ after[0] = wanted /\ after[1] = d1 /\ after[2] = d2 /\ after[3] = d3
        /\ after[4] = d4 /\ after[5] = d5
    OBVIOUS
  <2>2. /\ d1 = DropContested(wanted) /\ d2 = DropContested(d1) /\ d3 = DropContested(d2)
        /\ d4 = DropContested(d3) /\ d5 = DropContested(d4)
    BY DEF d1, d2, d3, d4, d5
  <2>3. \A n \in 0 .. 5 : after[n] = IF n = 0 THEN wanted ELSE DropContested(after[n - 1])
    <3> HIDE DEF after
    <3>1. QED
      BY <2>1, <2>2
  <2>4. QED
    BY <2>3
<1>2. Rounds(rounds)
  <2> HIDE DEF Rounds, after
  <2>1. QED
    BY <1>1, Zenon
<1>3. RoundsOfDropping(wanted, 5) = rounds[5]
  BY Zenon DEF RoundsOfDropping
<1> HIDE DEF rounds
<1>4. rounds[0] = wanted /\ \A n \in 1 .. 5 : rounds[n] = DropContested(rounds[n - 1])
  BY <1>2
<1>5. Dropped(wanted, rounds[0], 0)
  <2>1. Cardinality(DOMAIN wanted \cap ActionSet) <= 5
    BY ActionsCounted, FS_Subset
  <2>2. QED
    BY <2>1, <1>4 DEF Dropped
<1> HIDE DEF Rounds
<1>6. \A n \in 0 .. 4 : Dropped(wanted, rounds[n], n) => Dropped(wanted, rounds[n + 1], n + 1)
  <2> SUFFICES ASSUME NEW n \in 0 .. 4, Dropped(wanted, rounds[n], n)
               PROVE  Dropped(wanted, rounds[n + 1], n + 1)
    OBVIOUS
  <2>1. rounds[n + 1] = DropContested(rounds[n])
    BY <1>4
  <2>2. QED
    BY <2>1, DroppedOnce
<1>7. Dropped(wanted, rounds[1], 1)
  BY <1>5, <1>6
<1>8. Dropped(wanted, rounds[2], 2)
  BY <1>7, <1>6
<1>9. Dropped(wanted, rounds[3], 3)
  BY <1>8, <1>6
<1>10. Dropped(wanted, rounds[4], 4)
  BY <1>9, <1>6
<1>11. Dropped(wanted, rounds[5], 5)
  BY <1>10, <1>6
<1>12. QED
  BY <1>3, <1>11

(* Whatever the settings ask for, the resolved keys differ from action to  *)
(* action, can be typed, and do not move the highlight; and a key that was *)
(* asked for is refused only for a reason.                                 *)
THEOREM DialogKeysResolve ==
  ASSUME NEW config
  PROVE  LET keys == ResolveDialogKeys(config).keys
             wanted == Overrides(config)
         IN  /\ \A a, b \in ActionSet : keys[a] = keys[b] => a = b
             /\ \A a \in ActionSet : keys[a] \notin ReservedKeys /\ Bindable(keys[a])
             /\ \A a \in DOMAIN wanted :
                  keys[a] = wanted[a] \/ ~Bindable(wanted[a]) \/ wanted[a] \in ReservedKeys
                  \/ \E b \in ActionSet \ {a} : wanted[a] \in {keys[b], KeysWith(wanted)[b]}
<1> DEFINE wanted == Overrides(config)
           usable == [a \in {x \in DOMAIN wanted : Bindable(wanted[x]) /\ wanted[x] \notin ReservedKeys}
                        |-> wanted[a]]
           accepted == RoundsOfDropping(usable, 5)
           keys == ResolveDialogKeys(config).keys
<1>1. Len(Actions) = 5
  BY DEF Actions
<1>2. keys = KeysWith(accepted)
  BY <1>1 DEF ResolveDialogKeys, ResolveWithin
<1>3. /\ DOMAIN usable = {x \in DOMAIN wanted : Bindable(wanted[x]) /\ wanted[x] \notin ReservedKeys}
      /\ \A x \in DOMAIN usable : usable[x] = wanted[x]
  OBVIOUS
<1> HIDE DEF wanted, usable
<1>4. Dropped(usable, accepted, 5)
  BY FiveRounds
<1> HIDE DEF accepted, keys
<1>5. \A a \in ActionSet : keys[a] = IF a \in DOMAIN accepted THEN usable[a] ELSE DefaultKeys[a]
  BY <1>2, <1>4, KeyOf DEF Dropped
<1>6. ASSUME NEW a \in ActionSet, NEW b \in ActionSet, keys[a] = keys[b] PROVE a = b
  <2>1. CASE Contested(accepted) = {}
    BY <2>1, <1>2, <1>6, QuietKeysDiffer DEF Clash
  <2>2. CASE Cardinality(DOMAIN accepted \cap ActionSet) <= 0
    <3> DEFINE rest == DOMAIN accepted \cap ActionSet
    <3>1. IsFiniteSet(rest)
      BY ActionsCounted, FS_Subset
    <3>2. Cardinality(rest) <= 0
      BY <2>2
    <3> HIDE DEF rest
    <3>3. rest = {}
      BY <3>1, <3>2, FS_EmptySet, FS_CardinalityType
    <3>4. a \notin DOMAIN accepted /\ b \notin DOMAIN accepted
      BY <3>3 DEF rest
    <3>5. QED
      BY <3>4, <1>5, <1>6, DefaultsDiffer
  <2>3. QED
    BY <2>1, <2>2, <1>4 DEF Dropped
<1>7. ASSUME NEW a \in ActionSet PROVE keys[a] \notin ReservedKeys /\ Bindable(keys[a])
  BY <1>3, <1>4, <1>5, DefaultsDiffer DEF Dropped
<1>8. ASSUME NEW a \in DOMAIN wanted
      PROVE  \/ keys[a] = wanted[a] \/ ~Bindable(wanted[a]) \/ wanted[a] \in ReservedKeys
             \/ \E b \in ActionSet \ {a} : wanted[a] \in {keys[b], KeysWith(wanted)[b]}
  <2>1. CASE a \notin DOMAIN usable
    BY <2>1, <1>3
  <2>2. CASE a \in DOMAIN accepted
    <3>1. KeysWith(accepted)[a] = accepted[a]
      BY <2>2 DEF KeysWith, Spread
    <3>2. QED
      BY <3>1, <2>2, <1>2, <1>3, <1>4 DEF Dropped
  <2>3. CASE a \in DOMAIN usable \ DOMAIN accepted
    <3>1. PICK b \in ActionSet \ {a} :
            \/ b \in DOMAIN usable /\ usable[b] = usable[a]
            \/ b \notin DOMAIN accepted /\ DefaultKeys[b] = usable[a]
      BY <2>3, <1>4 DEF Dropped, Explained
    <3>2. usable[a] = wanted[a]
      BY <2>3, <1>3
    <3>3. CASE b \in DOMAIN usable /\ usable[b] = usable[a]
      <4>1. b \in DOMAIN wanted /\ wanted[b] = wanted[a]
        BY <3>2, <3>3, <1>3
      <4>2. KeysWith(wanted)[b] = wanted[a]
        BY <4>1, KeyOf
      <4>3. QED
        BY <4>2
    <3>4. CASE b \notin DOMAIN accepted /\ DefaultKeys[b] = usable[a]
      BY <3>2, <3>4, <1>5
    <3>5. QED
      BY <3>1, <3>3, <3>4
  <2>4. QED
    BY <2>1, <2>2, <2>3
<1>9. QED
  BY <1>6, <1>7, <1>8 DEF wanted, keys

(* Every decision of the dialog has a key of its own, whatever the         *)
(* settings in force are, and no key was refused without a reason.         *)
THEOREM KeysAlwaysDecideOneThing == Spec => []KeysDecideOneThing
<1>1. KeysDecideOneThing
  BY DialogKeysResolve DEF KeysDecideOneThing
<1>2. QED
  BY <1>1, PTL

-----------------------------------------------------------------------------
(* An untrusted project. *)

(* The files the settings are read from are the only ones that count.      *)
LEMMA ReadsDecide ==
  ASSUME NEW f, NEW g, NEW trust,
         \A i \in DOMAIN Layers(trust) : f[Layers(trust)[i]] = g[Layers(trust)[i]]
  PROVE  /\ LoadAndMergeConfigs(f, trust).merged = LoadAndMergeConfigs(g, trust).merged
         /\ LoadAndMergeConfigs(f, trust).declared = LoadAndMergeConfigs(g, trust).declared
<1> DEFINE reads(h) == [n \in DOMAIN Layers(trust) |-> LoadUnifiedConfig(h[Layers(trust)[n]])]
<1>1. reads(f) = reads(g)
  OBVIOUS
<1>2. \A h : /\ LoadAndMergeConfigs(h, trust).merged = MergeReads(reads(h))
             /\ LoadAndMergeConfigs(h, trust).declared = FoldDeclarations(reads(h), Layers(trust))
  BY DEF LoadAndMergeConfigs
<1>3. QED
  BY <1>1, <1>2

(* The inductive invariant.                                                *)
TwinInv ==
  /\ trusted \in BOOLEAN
  /\ twin = View(twin.files, twin.current, twin.declared, twin.modal)
  /\ DOMAIN files = AllLayers /\ DOMAIN twin.files = AllLayers
  /\ \A layer \in ProjectLayers : twin.files[layer] = Missing
  /\ ~trusted =>
       /\ policyTrusted = FALSE
       /\ \A layer \in AllLayers \ ProjectLayers : files[layer] = twin.files[layer]
       /\ current = twin.current /\ declared = twin.declared /\ modal = twin.modal

(* Reading the files again keeps the store and its twin together.          *)
LEMMA RefreshKeepsTwin ==
  ASSUME TwinInv, Refreshed, UNCHANGED <<files, trusted, modal>>,
         ~trusted => policyTrusted' = FALSE
  PROVE  TwinInv'
<1> DEFINE theirs == LoadAndMergeConfigs(twin.files, trusted)
<1>1. /\ current' = Normalize(LoadAndMergeConfigs(files, trusted).merged)
      /\ declared' = LoadAndMergeConfigs(files, trusted).declared
      /\ twin' = View(twin.files, Normalize(theirs.merged), theirs.declared, twin.modal)
  BY DEF Refreshed
<1> HIDE DEF theirs
<1>2. /\ twin'.files = twin.files /\ twin'.current = Normalize(theirs.merged)
      /\ twin'.declared = theirs.declared /\ twin'.modal = twin.modal
  BY <1>1 DEF View
<1>3. ASSUME ~trusted PROVE /\ LoadAndMergeConfigs(files, trusted).merged = theirs.merged
                            /\ LoadAndMergeConfigs(files, trusted).declared = theirs.declared
  <2>1. Layers(trusted) = <<"legacyGlobal", "legacyExtension", "global">> \o <<>>
    BY <1>3 DEF Layers
  <2>2. Layers(trusted) = <<"legacyGlobal", "legacyExtension", "global">>
    BY <2>1
  <2>3. \A i \in DOMAIN Layers(trusted) : Layers(trusted)[i] \in AllLayers \ ProjectLayers
    BY <2>2 DEF AllLayers, ProjectLayers
  <2>4. \A i \in DOMAIN Layers(trusted) : files[Layers(trusted)[i]] = twin.files[Layers(trusted)[i]]
    BY <2>3, <1>3 DEF TwinInv
  <2>5. QED
    BY <2>4, ReadsDecide DEF theirs
<1>4. twin' = View(twin'.files, twin'.current, twin'.declared, twin'.modal)
  BY <1>1, <1>2
<1>5. QED
  BY <1>1, <1>2, <1>3, <1>4 DEF TwinInv

LEMMA TwinInvInitially == Init => TwinInv
<1> SUFFICES ASSUME Init PROVE TwinInv
  OBVIOUS
<1>1. /\ trusted \in BOOLEAN /\ policyTrusted = FALSE /\ modal = <<>>
      /\ DOMAIN files = AllLayers
      /\ current = DefaultSettings /\ declared = NoSettings
      /\ twin = View(Emptied(files), DefaultSettings, NoSettings, <<>>)
  BY StartsAssumption DEF Init, SettingsInit
<1>2. /\ twin.files = Emptied(files) /\ twin.current = DefaultSettings
      /\ twin.declared = NoSettings /\ twin.modal = <<>>
  BY <1>1 DEF View
<1>3. /\ DOMAIN Emptied(files) = AllLayers
      /\ \A layer \in AllLayers : Emptied(files)[layer] = IF layer \in ProjectLayers THEN Missing
                                                          ELSE files[layer]
  BY <1>1 DEF Emptied
<1>4. ProjectLayers \subseteq AllLayers
  BY DEF ProjectLayers, AllLayers
<1>5. QED
  BY <1>1, <1>2, <1>3, <1>4 DEF TwinInv

(* What happens to the settings besides being read again.                  *)
LEMMA SettingsKeepTwin ==
  ASSUME TwinInv, Settings
  PROVE  TwinInv'
<1>0. /\ twin = View(twin.files, twin.current, twin.declared, twin.modal)
      /\ DOMAIN files = AllLayers /\ DOMAIN twin.files = AllLayers
      /\ ProjectLayers \subseteq AllLayers /\ "global" \in AllLayers \ ProjectLayers
  BY DEF TwinInv, ProjectLayers, AllLayers
<1>1. ASSUME NEW layer \in AllLayers, EditFile(layer) PROVE TwinInv'
  <2>1. PICK content \in Files[layer] :
          /\ files' = [files EXCEPT ![layer] = content]
          /\ twin' = IF layer \in ProjectLayers THEN twin ELSE [twin EXCEPT !.files[layer] = content]
    BY <1>1 DEF EditFile
  <2>2. UNCHANGED <<trusted, policyTrusted, current, declared, modal>>
    BY <1>1 DEF EditFile
  <2>3. twin' = View(IF layer \in ProjectLayers THEN twin.files ELSE [twin.files EXCEPT ![layer] = content],
                     twin.current, twin.declared, twin.modal)
    BY <2>1, <1>0 DEF View
  <2>4. /\ twin'.files = IF layer \in ProjectLayers THEN twin.files
                         ELSE [twin.files EXCEPT ![layer] = content]
        /\ twin'.current = twin.current /\ twin'.declared = twin.declared /\ twin'.modal = twin.modal
    BY <2>3 DEF View
  <2>5. QED
    BY <2>1, <2>2, <2>3, <2>4, <1>0 DEF TwinInv
<1>2. CASE TrustProject
  BY <1>2 DEF TrustProject, TwinInv
<1>3. CASE OpenSettingsModal
  <2>1. /\ modal' = <<current>> /\ twin' = [twin EXCEPT !.modal = <<twin.current>>]
        /\ UNCHANGED <<files, trusted, policyTrusted, current, declared>>
    BY <1>3 DEF OpenSettingsModal
  <2>2. twin' = View(twin.files, twin.current, twin.declared, <<twin.current>>)
    BY <2>1, <1>0 DEF View
  <2>3. QED
    BY <2>1, <2>2 DEF TwinInv, View
<1>4. CASE CloseSettingsModal
  <2>1. /\ modal' = <<>> /\ twin' = [twin EXCEPT !.modal = <<>>]
        /\ UNCHANGED <<files, trusted, policyTrusted, current, declared>>
    BY <1>4 DEF CloseSettingsModal
  <2>2. twin' = View(twin.files, twin.current, twin.declared, <<>>)
    BY <2>1, <1>0 DEF View
  <2>3. QED
    BY <2>1, <2>2 DEF TwinInv, View
<1>5. ASSUME NEW key \in Flags, NEW value \in BOOLEAN, ApplySetting(key, value) PROVE TwinInv'
  <2> DEFINE next == Changed(modal[1], key, value)
             theirs == Changed(twin.modal[1], key, value)
  <2>1. UNCHANGED <<trusted, policyTrusted, declared>>
    BY <1>5 DEF ApplySetting
  <2>2. \/ /\ files' = [files EXCEPT !["global"] = Written(files["global"], next)]
           /\ current' = next /\ modal' = <<next>>
           /\ twin' = View([twin.files EXCEPT !["global"] = Written(twin.files["global"], theirs)],
                           theirs, twin.declared, <<theirs>>)
        \/ /\ UNCHANGED <<files, current>>
           /\ modal' = <<current>> /\ twin' = [twin EXCEPT !.modal = <<twin.current>>]
    BY <1>5 DEF ApplySetting
  <2>3. ~trusted => next = theirs
    BY DEF TwinInv
  <2> HIDE DEF next, theirs
  <2>4. CASE /\ files' = [files EXCEPT !["global"] = Written(files["global"], next)]
             /\ current' = next /\ modal' = <<next>>
             /\ twin' = View([twin.files EXCEPT !["global"] = Written(twin.files["global"], theirs)],
                             theirs, twin.declared, <<theirs>>)
    <3>1. /\ twin'.files = [twin.files EXCEPT !["global"] = Written(twin.files["global"], theirs)]
          /\ twin'.current = theirs /\ twin'.declared = twin.declared /\ twin'.modal = <<theirs>>
          /\ twin' = View(twin'.files, twin'.current, twin'.declared, twin'.modal)
      BY <2>4 DEF View
    <3>2. ~trusted => files["global"] = twin.files["global"]
      BY <1>0 DEF TwinInv
    <3>3. ~trusted => Written(files["global"], next) = Written(twin.files["global"], theirs)
      BY <2>3, <3>2
    <3>4. QED
      BY <2>1, <2>3, <2>4, <3>1, <3>3, <1>0 DEF TwinInv
  <2>5. CASE /\ UNCHANGED <<files, current>>
             /\ modal' = <<current>> /\ twin' = [twin EXCEPT !.modal = <<twin.current>>]
    <3>1. twin' = View(twin.files, twin.current, twin.declared, <<twin.current>>)
      BY <2>5, <1>0 DEF View
    <3>2. QED
      BY <2>1, <2>5, <3>1 DEF TwinInv, View
  <2>6. QED
    BY <2>2, <2>4, <2>5
<1>6. CASE ResetSettings
  <2>1. /\ files' = [files EXCEPT !["global"] = Written(files["global"], DefaultSettings)]
        /\ current' = DefaultSettings
        /\ twin' = [twin EXCEPT !.files["global"] = Written(twin.files["global"], DefaultSettings),
                                !.current = DefaultSettings]
        /\ UNCHANGED <<trusted, policyTrusted, declared, modal>>
    BY <1>6 DEF ResetSettings
  <2>2. twin' = View([twin.files EXCEPT !["global"] = Written(twin.files["global"], DefaultSettings)],
                     DefaultSettings, twin.declared, twin.modal)
    BY <2>1, <1>0 DEF View
  <2>3. /\ twin'.files = [twin.files EXCEPT !["global"] = Written(twin.files["global"], DefaultSettings)]
        /\ twin'.current = DefaultSettings /\ twin'.declared = twin.declared
        /\ twin'.modal = twin.modal
    BY <2>2 DEF View
  <2>4. ~trusted => files["global"] = twin.files["global"]
    BY <1>0 DEF TwinInv
  <2>5. ~trusted => Written(files["global"], DefaultSettings) = Written(twin.files["global"], DefaultSettings)
    BY <2>4
  <2>6. QED
    BY <2>1, <2>2, <2>3, <2>5, <1>0 DEF TwinInv
<1>7. QED
  BY <1>1, <1>2, <1>3, <1>4, <1>5, <1>6 DEF Settings

LEMMA TwinInvStep == TwinInv /\ [Next]_vars => TwinInv'
<1> SUFFICES ASSUME TwinInv, [Next]_vars PROVE TwinInv'
  OBVIOUS
<1>1. CASE Settings
  BY <1>1, SettingsKeepTwin
<1>2. CASE HandleSessionStart
  <2>1. Refreshed /\ UNCHANGED <<files, trusted, modal>> /\ policyTrusted' = trusted
    BY <1>2 DEF HandleSessionStart
  <2>2. ~trusted => policyTrusted' = FALSE
    BY <2>1 DEF TwinInv
  <2>3. QED
    BY <2>1, <2>2, RefreshKeepsTwin
<1>3. CASE Prepare
  <2>1. Refreshed /\ UNCHANGED <<files, trusted, modal, policyTrusted>>
    BY <1>3 DEF Prepare
  <2>2. ~trusted => policyTrusted' = FALSE
    BY <2>1 DEF TwinInv
  <2>3. QED
    BY <2>1, <2>2, RefreshKeepsTwin
<1>4. CASE HandleResourcesDiscover
  BY <1>4 DEF HandleResourcesDiscover, TwinInv
<1>5. CASE ParentChanges
  BY <1>5 DEF ParentChanges, TwinInv
<1>6. CASE UNCHANGED settingsVars
  BY <1>6 DEF settingsVars, TwinInv
<1>7. QED
  <2>1. CASE BeginSession \/ JudgeSessionStart \/ HandleSessionShutdown \/ RegisterLink
             \/ (\E request \in Asks : Escalate(request))
    BY <2>1, <1>6 DEF BeginSession, JudgeSessionStart, HandleSessionShutdown, RegisterLink, Escalate
  <2>2. CASE \/ OtherLink \/ LinkThrows
             \/ JudgeDefers \/ JudgeAsksForKey \/ JudgeAuth \/ JudgeTimesOut \/ JudgeReplies
             \/ Relay \/ Deny \/ Present \/ (\E key \in Keyboard : PressKey(key))
             \/ AnswerExpires \/ (\E choice \in ActionSet \cup {"dismissed"} : Choose(choice))
             \/ ChooseScope \/ GiveReason \/ Return
    <3>1. UnchangedBut
      BY <2>2 DEF OtherLink, LinkThrows, JudgeDefers, JudgeAsksForKey, JudgeAuth, JudgeTimesOut,
                  JudgeReplies, Relay, Deny, Present, PressKey, AnswerExpires, Choose, ChooseScope,
                  GiveReason, Return
    <3>2. QED
      BY <3>1, <1>6 DEF UnchangedBut
  <2>3. CASE UNCHANGED vars
    BY <2>3, <1>6 DEF vars
  <2>4. QED
    BY <2>1, <2>2, <2>3, <1>1, <1>2, <1>3, <1>4, <1>5 DEF Next

THEOREM TwinInvariant == Spec => []TwinInv
<1>1. QED
  BY TwinInvInitially, TwinInvStep, PTL DEF Spec

(* Before a project is trusted nothing it holds reaches the settings, the  *)
(* declared effects, the policy or, through the dialog that writes what is *)
(* in force, the operator's own file, however often these are edited.      *)
THEOREM UntrustedProjectsStayUnread == Spec => []UntrustedProjectIsUnread
<1>1. TwinInv => UntrustedProjectIsUnread
  <2> SUFFICES ASSUME TwinInv, ~trusted PROVE UntrustedProjectIsUnread
    BY DEF UntrustedProjectIsUnread
  <2>1. files["global"] = twin.files["global"] /\ files["agent"] = twin.files["agent"]
    BY DEF TwinInv, AllLayers, ProjectLayers
  <2>2. policyTrusted = FALSE
    BY DEF TwinInv
  <2>3. Policies(files, policyTrusted) = Policies(twin.files, policyTrusted)
    BY <2>1, <2>2 DEF Policies
  <2>4. QED
    BY <2>1, <2>3 DEF TwinInv, UntrustedProjectIsUnread
<1>2. QED
  BY <1>1, TwinInvariant, PTL

-----------------------------------------------------------------------------
(* The judge. *)

(* A judge that is loaded in a session that has started is registered, or  *)
(* "ready" is still to be repeated, which it is before the first turn.     *)
RegistrationInv ==
  /\ DOMAIN session = {"on", "number", "started", "judged", "turned", "context"}
  /\ session.started \/ session.judged => session.on
  /\ session.turned => session.started /\ session.judged /\ announced
  /\ ~session.judged => ~judge.loaded
  /\ session.started /\ ~session.judged => ~announced
  /\ session.started /\ judge.loaded => ModelJudgeLink \in links \/ ~announced

(* A request that names the judge has consulted it or still has it before  *)
(* it, and the dialog comes when the chain is worked through.              *)
ConsultedInv ==
  /\ DOMAIN ask = {"stage", "request", "chain", "consulted", "config", "ready", "named", "aborted",
                   "review", "decision", "by"}
  /\ ask.stage \in {"links", "auth", "model", "dialog"} /\ ask.named /\ ask.ready =>
       ModelJudgeLink \in ask.consulted \/ \E link \in ask.chain : link[2] = ModelJudgeLink
  /\ ask.stage = "dialog" => ask.chain = {}

JudgeInv == RegistrationInv /\ ConsultedInv

(* The steps of a request that has begun: they touch nothing else.         *)
AskMoves ==
  \/ OtherLink \/ LinkThrows
  \/ JudgeDefers \/ JudgeAsksForKey \/ JudgeAuth \/ JudgeTimesOut \/ JudgeReplies
  \/ Relay \/ Deny \/ Present
  \/ (\E key \in Keyboard : PressKey(key))
  \/ AnswerExpires
  \/ (\E choice \in ActionSet \cup {"dismissed"} : Choose(choice))
  \/ ChooseScope \/ GiveReason \/ Return

LEMMA AskMovesLeaveNode == AskMoves => UNCHANGED <<settingsVars, nodeVars, asked>>
  BY DEF AskMoves, UnchangedBut, OtherLink, LinkThrows, JudgeDefers, JudgeAsksForKey, JudgeAuth,
         JudgeTimesOut, JudgeReplies, Relay, Deny, Present, PressKey, AnswerExpires, Choose,
         ChooseScope, GiveReason, Return

LEMMA RegistrationStep == RegistrationInv /\ [Next]_vars => RegistrationInv'
<1> SUFFICES ASSUME RegistrationInv, [Next]_vars PROVE RegistrationInv'
  OBVIOUS
<1>1. CASE BeginSession
  <2>1. PICK context \in Contexts :
          session' = [Off EXCEPT !.on = TRUE, !.number = session.number + 1, !.context = context]
    BY <1>1 DEF BeginSession
  <2>2. ~session.on /\ UNCHANGED <<announced, links, judge>>
    BY <1>1 DEF BeginSession
  <2>3. QED
    BY <2>1, <2>2 DEF RegistrationInv, Off
<1>2. CASE HandleSessionStart
  <2>1. /\ session.on /\ ~session.started /\ session' = [session EXCEPT !.started = TRUE]
        /\ announced' = FALSE /\ links' = Ready(judge) /\ judge' = judge
    BY <1>2 DEF HandleSessionStart
  <2>2. QED
    BY <2>1 DEF RegistrationInv, Ready
<1>3. CASE JudgeSessionStart
  <2>1. /\ session.on /\ ~session.judged /\ session' = [session EXCEPT !.judged = TRUE]
        /\ UNCHANGED <<announced, links>>
    BY <1>3 DEF JudgeSessionStart
  <2>2. QED
    BY <2>1 DEF RegistrationInv
<1>4. CASE Prepare
  <2>1. /\ session.on /\ session.started /\ session.judged
        /\ session' = [session EXCEPT !.turned = TRUE]
        /\ announced' = TRUE /\ links' = (IF announced THEN links ELSE Ready(judge)) /\ judge' = judge
    BY <1>4 DEF Prepare
  <2>2. QED
    BY <2>1 DEF RegistrationInv, Ready
<1>5. CASE HandleSessionShutdown
  <2>1. session' = [Off EXCEPT !.number = session.number] /\ judge' = NoJudge
    BY <1>5 DEF HandleSessionShutdown
  <2>2. QED
    BY <2>1 DEF RegistrationInv, Off, NoJudge
<1>6. CASE RegisterLink
  BY <1>6 DEF RegisterLink, RegistrationInv
<1>7. CASE UNCHANGED <<session, announced, links, judge>>
  BY <1>7 DEF RegistrationInv
<1>8. QED
  <2>1. CASE Settings \/ HandleResourcesDiscover \/ ParentChanges \/ \E request \in Asks : Escalate(request)
    BY <2>1, <1>7 DEF Settings, HandleResourcesDiscover, ParentChanges, Escalate, nodeVars
  <2>2. CASE AskMoves
    BY <2>2, <1>7, AskMovesLeaveNode DEF nodeVars
  <2>3. CASE UNCHANGED vars
    BY <2>3, <1>7 DEF vars, nodeVars
  <2>4. QED
    BY <2>1, <2>2, <2>3, <1>1, <1>2, <1>3, <1>4, <1>5, <1>6 DEF Next, AskMoves

(* A request takes along the links of its moment.                          *)
LEMMA EscalateConsults ==
  ASSUME JudgeInv, NEW request \in Asks, Escalate(request)
  PROVE  ConsultedInv'
<1>1. ask' = [NoAsk EXCEPT !.stage = "links", !.request = request, !.chain = LinksFor,
                          !.ready = judge.loaded,
                          !.named = AdjudicatesLocally /\ ModelJudgeLink \in ToSet(ChainSettings)]
  BY DEF Escalate
<1>2. /\ DOMAIN ask' = DOMAIN NoAsk /\ ask'.stage = "links" /\ ask'.chain = LinksFor
      /\ ask'.ready = judge.loaded
      /\ ask'.named = (AdjudicatesLocally /\ ModelJudgeLink \in ToSet(ChainSettings))
  BY <1>1 DEF NoAsk
<1>3. judge.loaded => ModelJudgeLink \in links
  BY DEF Escalate, JudgeInv, RegistrationInv
<1>4. ASSUME AdjudicatesLocally, ModelJudgeLink \in ToSet(ChainSettings), judge.loaded
      PROVE  \E link \in LinksFor : link[2] = ModelJudgeLink
  <2>1. PICK i \in DOMAIN ChainSettings : ChainSettings[i] = ModelJudgeLink
    BY <1>4 DEF ToSet
  <2>2. <<i, ModelJudgeLink>> \in LinksFor
    BY <2>1, <1>3, <1>4 DEF LinksFor
  <2>3. QED
    BY <2>2
<1>5. QED
  BY <1>2, <1>4 DEF ConsultedInv, NoAsk

(* An answer ends the request.                                             *)
LEMMA AnswerConsults ==
  ASSUME ConsultedInv, NEW decision, NEW by, ask' = Answer(decision, by)
  PROVE  ConsultedInv'
<1>1. DOMAIN ask' = DOMAIN ask /\ ask'.stage = "done"
  BY DEF Answer, ConsultedInv
<1>2. QED
  BY <1>1 DEF ConsultedInv

LEMMA ConsultedStep == JudgeInv /\ [Next]_vars => ConsultedInv'
<1> SUFFICES ASSUME JudgeInv, [Next]_vars PROVE ConsultedInv'
  OBVIOUS
<1> USE DEF JudgeInv
<1>1. CASE \E request \in Asks : Escalate(request)
  BY <1>1, EscalateConsults
<1>2. CASE OtherLink
  <2>1. PICK verdict \in {"allow", "deny", Defer} :
          LET enclosed == EncloseInDelegationEnvelope(verdict, ask.request)
          IN  ask' = IF enclosed = Defer THEN NextLink("other") ELSE DecideFromVerdict("other", enclosed)
    BY <1>2 DEF OtherLink
  <2>2. ask.stage = "links" /\ FirstLink[2] # ModelJudgeLink
    BY <1>2 DEF OtherLink, Link
  <2>3. ask' = NextLink("other") \/ \E decision, by : ask' = Answer(decision, by)
    BY <2>1 DEF DecideFromVerdict
  <2>4. CASE ask' = NextLink("other")
    <3>1. /\ DOMAIN ask' = DOMAIN ask /\ ask'.stage = "links" /\ ask'.chain = ask.chain \ {FirstLink}
          /\ ask'.consulted = ask.consulted \cup {"other"}
          /\ ask'.named = ask.named /\ ask'.ready = ask.ready
      BY <2>4 DEF NextLink, ConsultedInv
    <3>2. QED
      BY <2>2, <3>1 DEF ConsultedInv
  <2>5. QED
    BY <2>3, <2>4, AnswerConsults
<1>3. CASE JudgeDefers \/ JudgeAsksForKey \/ JudgeAuth \/ JudgeTimesOut
  BY <1>3 DEF JudgeDefers, JudgeAsksForKey, JudgeAuth, JudgeTimesOut, Link, NextLink, ConsultedInv
<1>4. CASE JudgeReplies
  <2>1. PICK reply \in Replies :
          ask' = IF ReviewOutcome(reply) = Defer THEN NextLink(ModelJudgeLink)
                 ELSE [DecideFromVerdict(ModelJudgeLink, "deny") EXCEPT
                         !.consulted = ask.consulted \cup {ModelJudgeLink},
                         !.decision = DeniedWithReason]
    BY <1>4 DEF JudgeReplies
  <2>2. ask.stage = "model"
    BY <1>4 DEF JudgeReplies
  <2>3. DOMAIN ask' = DOMAIN ask /\ (ask' = NextLink(ModelJudgeLink) \/ ask'.stage = "done")
    BY <2>1 DEF NextLink, DecideFromVerdict, Answer, ConsultedInv
  <2>4. QED
    BY <2>2, <2>3 DEF ConsultedInv, NextLink
<1>5. CASE Present
  BY <1>5 DEF Present, Terminal, ConsultedInv
<1>6. CASE Return
  BY <1>6 DEF Return, NoAsk, ConsultedInv
<1>7. ASSUME UNCHANGED ask \/ \E decision, by : ask' = Answer(decision, by)
      PROVE  ConsultedInv'
  <2>1. CASE UNCHANGED ask
    BY <2>1 DEF ConsultedInv
  <2>2. CASE \E decision, by : ask' = Answer(decision, by)
    BY <2>2, AnswerConsults
  <2>3. QED
    BY <1>7, <2>1, <2>2
<1>8. QED
  <2>1. CASE LinkThrows \/ Relay \/ Deny \/ AnswerExpires \/ ChooseScope \/ GiveReason
    BY <2>1, <1>7 DEF LinkThrows, Relay, Deny, AnswerExpires, ChooseScope, GiveReason
  <2>2. CASE (\E key \in Keyboard : PressKey(key)) \/ (\E choice \in ActionSet \cup {"dismissed"} : Choose(choice))
    BY <2>2, <1>7 DEF PressKey, Choose
  <2>3. CASE Settings \/ BeginSession \/ HandleSessionStart \/ JudgeSessionStart \/ Prepare
             \/ HandleResourcesDiscover \/ HandleSessionShutdown \/ ParentChanges \/ RegisterLink
    BY <2>3, <1>7 DEF Settings, BeginSession, HandleSessionStart, JudgeSessionStart, Prepare,
         HandleResourcesDiscover, HandleSessionShutdown, ParentChanges, RegisterLink, askVars
  <2>4. CASE UNCHANGED vars
    BY <2>4, <1>7 DEF vars, askVars
  <2>5. QED
    BY <2>1, <2>2, <2>3, <2>4, <1>1, <1>2, <1>3, <1>4, <1>5, <1>6 DEF Next

THEOREM JudgeInvariant == Spec => []JudgeInv
<1>1. Init => JudgeInv
  BY DEF Init, JudgeInv, RegistrationInv, ConsultedInv, Off, NoAsk, NoJudge
<1>2. JudgeInv /\ [Next]_vars => JudgeInv'
  BY RegistrationStep, ConsultedStep DEF JudgeInv
<1>3. QED
  BY <1>1, <1>2, PTL DEF Spec

(* A judge that was configured in time and is named in the settings is     *)
(* asked before the human is, in whichever order the extensions start, and *)
(* however often settings change and sessions follow one another.          *)
THEOREM JudgesAreHeard == Spec => []JudgeIsHeard
<1>1. JudgeInv => JudgeIsHeard
  BY DEF JudgeInv, ConsultedInv, JudgeIsHeard
<1>2. QED
  BY <1>1, JudgeInvariant, PTL

-----------------------------------------------------------------------------
(* The prompt. *)

PromptStates(s) == DOMAIN s = {"step", "at", "armed", "error", "serving", "width"}

(* A decision is armed by the last key that counts.                        *)
ArmedByLast(d) ==
  d.state.step = "decision" /\ d.state.armed # NotArmed => d.view.keys[d.state.armed] = d.last

(* A dialog is up only for the request that waits for it, or was answered  *)
(* in it.                                                                  *)
PromptInv ==
  /\ DOMAIN dialog = {"shown", "view", "state", "text", "clock", "choice", "touched", "last", "repeated"}
  /\ ask.stage \notin {"dialog", "done"} => dialog.shown = "none"
  /\ ask.stage = "dialog" /\ dialog.shown = "inline" =>
       /\ PromptStates(dialog.state) /\ ArmedByLast(dialog)
       /\ \A a \in ActionSet : Bindable(dialog.view.keys[a])
  /\ NoStrayKeyApproves

(* The first of some actions is one of them.                               *)
LEMMA FirstIsOne ==
  ASSUME NEW actions \in SUBSET ActionSet, actions # {}
  PROVE  FirstOf(actions) \in actions
<1> DEFINE places == {i \in DOMAIN Actions : Actions[i] \in actions}
<1>1. DOMAIN Actions = 1 .. 5
  BY DEF Actions
<1>2. places # {}
  BY DEF ActionSet
<1>3. places \subseteq 1 .. 5
  BY <1>1
<1>4. \E i \in places : \A j \in places : i <= j
  <2> HIDE DEF places
  <2>1. \A j \in places : j \in Int /\ j >= 1 /\ j <= 5 /\ j \in {1, 2, 3, 4, 5}
    BY <1>3
  <2>2. QED
    BY <1>2, <2>1
<1>5. Min(places) \in places
  BY <1>4 DEF Min
<1>6. QED
  BY <1>5 DEF FirstOf

(* What a commit of an action comes to: a decision, or a further step with *)
(* nothing armed.                                                          *)
LEMMA Committed ==
  ASSUME NEW view, NEW state, PromptStates(state), NEW action
  PROVE  LET outcome == Commit(view, state, action)
         IN  /\ PromptStates(outcome.state)
             /\ outcome.decision = Undecided => outcome.state.armed = NotArmed
  BY DEF Commit, PromptStates, Shows, Decides, Decision, Denied, SessionDecision, Undecided

(* A key counts if it moves, confirms, leaves or names a decision.         *)
KeyCounts(view, key) == key \in NamedKeys \/ BoundTo(view, key) # {}

(* What is shown or decided after a key, when the last one that counted    *)
(* before it is known.                                                     *)
AfterKey(outcome, view, key, last) ==
  /\ PromptStates(outcome.state)
  /\ outcome.decision = Undecided =>
       (outcome.state.step = "decision" /\ outcome.state.armed # NotArmed =>
          view.keys[outcome.state.armed] = IF KeyCounts(view, key) THEN key ELSE last)
  /\ outcome.decision.approved /\ view.doublePress =>
       key = "enter" \/ (KeyCounts(view, key) /\ key = last)

(* One key in the inline dialog.                                           *)
LEMMA OneKey ==
  ASSUME NEW view, NEW state, NEW text, NEW key, NEW last, PromptStates(state),
         \A a \in ActionSet : Bindable(view.keys[a]),
         state.step = "decision" /\ state.armed # NotArmed => view.keys[state.armed] = last
  PROVE  AfterKey(HandleInput(view, state, text, key), view, key, last)
<1> DEFINE outcome == HandleInput(view, state, text, key)
           answering == KeyCounts(view, key)
           Fine(o) == AfterKey(o, view, key, last)
<1> USE DEF AfterKey
<1>1. Fine(Shows(Back(state)))
  BY DEF Shows, Back, PromptStates, Undecided, NotArmed
<1>2. ASSUME ~answering \/ state.step # "decision" PROVE Fine(Shows(state))
  BY <1>2 DEF Shows, Undecided
<1>3. \A decision : decision.approved = FALSE /\ decision # Undecided => Fine(Decides(state, decision))
  BY DEF Decides
<1>4. Denied.approved = FALSE /\ Denied # Undecided
      /\ DeniedWithReason.approved = FALSE /\ DeniedWithReason # Undecided
  BY DEF Denied, DeniedWithReason, Decision, Undecided
<1>5. CASE state.step = "reason"
  <2>1. outcome = ReduceReasonStep(state, ToReasonEvent(key, text))
    BY <1>5 DEF HandleInput, ReducePrompt
  <2>2. Fine(Shows([state EXCEPT !.error = TRUE]))
    BY <1>5 DEF Shows, PromptStates, Undecided
  <2>3. outcome \in {Shows(Back(state)), Shows(state), Shows([state EXCEPT !.error = TRUE]),
                     Decides(state, DeniedWithReason)}
    BY <2>1 DEF ReduceReasonStep
  <2> HIDE DEF Fine, outcome
  <2>4. Fine(outcome)
    BY <2>2, <2>3, <1>1, <1>2, <1>3, <1>4, <1>5
  <2>5. QED
    BY <2>4 DEF Fine, outcome
<1>6. CASE state.step # "reason" /\ key = "ctrl+o"
  <2>1. outcome = Shows(state)
    BY <1>6 DEF HandleInput
  <2>2. ~answering
    BY <1>6 DEF KeyCounts, BoundTo, Bindable, BindableCharacters, NamedKeys
  <2> HIDE DEF Fine, outcome, answering
  <2>3. Fine(outcome)
    BY <2>1, <2>2, <1>2
  <2>4. QED
    BY <2>3 DEF Fine, outcome, answering
<1>7. CASE state.step \notin {"reason", "decision"} /\ key # "ctrl+o"
  <2> DEFINE event == ToEvent(view, state, key)
  <2>1. outcome = ReduceScopeStep(state, event)
    BY <1>7 DEF HandleInput, ReducePrompt
  <2>2. event.type = "confirm" => key = "enter"
    BY DEF ToEvent, Nothing
  <2>3. Fine(Shows([state EXCEPT !.serving = event.direction = "down"]))
    BY <1>7 DEF Shows, PromptStates, Undecided
  <2>4. ASSUME event.type = "confirm", NEW decision PROVE Fine(Decides(state, decision))
    BY <1>7, <2>2, <2>4 DEF Decides
  <2>5. \/ outcome \in {Shows([state EXCEPT !.serving = event.direction = "down"]), Shows(state),
                        Shows(Back(state))}
        \/ event.type = "confirm" /\ \E decision : outcome = Decides(state, decision)
    BY <2>1 DEF ReduceScopeStep
  <2> HIDE DEF Fine, outcome, event
  <2>6. Fine(outcome)
    BY <2>3, <2>4, <2>5, <1>1, <1>2, <1>7
  <2>7. QED
    BY <2>6 DEF Fine, outcome
<1>8. CASE state.step = "decision" /\ key # "ctrl+o"
  <2> DEFINE event == ToEvent(view, state, key)
  <2>1. outcome = ReduceDecisionStep(view, state, event)
    BY <1>8 DEF HandleInput, ReducePrompt
  <2>2. ASSUME key \in {"up", "k", "down", "j"} PROVE Fine(outcome)
    <3>1. event.type = "nav"
      BY <2>2 DEF ToEvent, NamedKeys
    <3>2. outcome = Navigate(view, state, event.direction)
      BY <2>1, <3>1 DEF ReduceDecisionStep
    <3> HIDE DEF outcome, event
    <3>3. /\ outcome.decision = Undecided /\ outcome.state.armed = NotArmed
          /\ PromptStates(outcome.state)
      BY <3>2 DEF Navigate, Shows, PromptStates
    <3>4. QED
      BY <3>3 DEF Undecided
  <2>3. ASSUME key = "enter" PROVE Fine(outcome)
    <3>1. event.type = "confirm"
      BY <2>3 DEF ToEvent, NamedKeys
    <3>2. outcome = Commit(view, state, state.at)
      BY <2>1, <3>1 DEF ReduceDecisionStep
    <3> HIDE DEF outcome
    <3>3. QED
      BY <2>3, <3>2, Committed
  <2>4. ASSUME key = "escape" PROVE Fine(outcome)
    <3>1. event.type = "cancel"
      BY <2>4 DEF ToEvent, NamedKeys
    <3>2. outcome = Decides(state, Denied)
      BY <2>1, <3>1 DEF ReduceDecisionStep
    <3> HIDE DEF outcome, Fine
    <3>3. QED
      BY <3>2, <1>3, <1>4
  <2>5. ASSUME key \notin NamedKeys, BoundTo(view, key) = {} PROVE Fine(outcome)
    <3>1. event = Nothing
      BY <2>5 DEF ToEvent, NamedKeys
    <3>2. outcome = Shows(state)
      BY <2>1, <3>1 DEF ReduceDecisionStep, Nothing
    <3> HIDE DEF outcome, Fine
    <3>3. QED
      BY <2>5, <3>2, <1>2 DEF KeyCounts
  <2>6. ASSUME key \notin NamedKeys, BoundTo(view, key) # {} PROVE Fine(outcome)
    <3> DEFINE action == FirstOf(BoundTo(view, key))
    <3>1. action \in ActionSet /\ IsVisible(view, action) /\ view.keys[action] = key
      <4>1. action \in BoundTo(view, key)
        BY <2>6, FirstIsOne DEF BoundTo
      <4>2. QED
        BY <4>1 DEF BoundTo
    <3>2. event = [type |-> "hotkey", action |-> action]
      BY <1>8, <2>6 DEF ToEvent, NamedKeys
    <3> HIDE DEF action, event
    <3>3. outcome = PressHotkey(view, state, action)
      BY <2>1, <3>1, <3>2 DEF ReduceDecisionStep
    <3>4. action # NotArmed
      BY <3>1 DEF ActionSet, Actions, NotArmed
    <3>5. answering
      BY <2>6 DEF KeyCounts
    <3> HIDE DEF outcome
    <3>6. CASE ~view.doublePress \/ state.armed = action
      <4>1. outcome = Commit(view, state, action)
        BY <3>3, <3>6 DEF PressHotkey
      <4>2. view.doublePress => key = last
        BY <3>1, <3>4, <3>6, <1>8
      <4>3. QED
        BY <4>1, <4>2, <3>5, Committed
    <3>7. CASE ~(~view.doublePress \/ state.armed = action)
      <4>1. outcome = Shows([state EXCEPT !.at = action, !.armed = action])
        BY <3>3, <3>7 DEF PressHotkey
      <4>2. /\ outcome.decision = Undecided /\ outcome.state.armed = action
            /\ PromptStates(outcome.state)
        BY <4>1 DEF Shows, PromptStates
      <4>3. QED
        BY <4>2, <3>1, <3>5 DEF Undecided
    <3>8. QED
      BY <3>6, <3>7
  <2>7. Fine(outcome)
    BY <2>2, <2>3, <2>4, <2>5, <2>6 DEF NamedKeys, KeyCounts
  <2>8. QED
    BY <2>7
<1>9. QED
  BY <1>5, <1>6, <1>7, <1>8

LEMMA PressKeyKeepsPrompt ==
  ASSUME ConsultedInv, PromptInv, NEW key, PressKey(key)
  PROVE  PromptInv'
<1> DEFINE outcome == HandleInput(dialog.view, dialog.state, dialog.text, key)
           now == IF IsAnswering(key) THEN key ELSE dialog.last
<1>1. ask.stage = "dialog" /\ dialog.shown = "inline"
  BY DEF PressKey, Inline
<1>2. /\ dialog' = [dialog EXCEPT
            !.state = outcome.state, !.clock = Engaged, !.touched = TRUE,
            !.text = IF outcome.state.step = "reason" /\ dialog.state.step # "reason" THEN "blank"
                     ELSE IF dialog.state.step = "reason" THEN Typed(key, dialog.text) ELSE dialog.text,
            !.repeated = IF IsAnswering(key) THEN key = dialog.last ELSE dialog.repeated,
            !.last = now]
      /\ ask' = IF outcome.decision # Undecided THEN Answer(outcome.decision, Source("user", 0)) ELSE ask
  BY DEF PressKey
<1>3. /\ PromptStates(dialog.state) /\ ArmedByLast(dialog)
      /\ \A a \in ActionSet : Bindable(dialog.view.keys[a])
  BY <1>1 DEF PromptInv
<1>4. AfterKey(outcome, dialog.view, key, dialog.last)
  BY <1>3, OneKey DEF ArmedByLast
<1>5. IsAnswering(key) <=> KeyCounts(dialog.view, key)
  BY DEF IsAnswering, KeyCounts
<1> HIDE DEF outcome, now
<1>6. /\ DOMAIN dialog' = DOMAIN dialog
      /\ dialog'.shown = "inline" /\ dialog'.view = dialog.view /\ dialog'.state = outcome.state
      /\ dialog'.last = now
      /\ dialog'.repeated = IF IsAnswering(key) THEN key = dialog.last ELSE dialog.repeated
  BY <1>1, <1>2 DEF PromptInv
<1>7. CASE outcome.decision = Undecided
  <2>1. ask' = ask
    BY <1>2, <1>7
  <2>2. ~(ask'.stage = "done")
    BY <2>1, <1>1
  <2>3. QED
    BY <2>1, <2>2, <1>1, <1>3, <1>4, <1>5, <1>6, <1>7 DEF PromptInv, ArmedByLast, AfterKey, now, NoStrayKeyApproves
<1>8. CASE outcome.decision # Undecided
  <2>1. ask'.stage = "done" /\ ask'.decision = outcome.decision
    BY <1>2, <1>8 DEF Answer, ConsultedInv
  <2>2. NoStrayKeyApproves'
    <3>1. key = "enter" => IsAnswering(key)
      BY DEF IsAnswering, NamedKeys
    <3>2. QED
      BY <2>1, <3>1, <1>4, <1>5, <1>6 DEF NoStrayKeyApproves, AfterKey, now
  <2>3. QED
    BY <2>1, <2>2, <1>3, <1>6 DEF PromptInv
<1>9. QED
  BY <1>7, <1>8

(* Nothing is on the screen before a request gets to the human, so what    *)
(* happens to it until then leaves the dialog out of the question.         *)
LEMMA NothingShown ==
  ASSUME PromptInv, dialog.shown = "none", UNCHANGED dialog
  PROVE  PromptInv'
  BY DEF PromptInv, NoStrayKeyApproves

(* A decision made elsewhere than in the inline dialog.                    *)
LEMMA DecidedElsewhere ==
  ASSUME ConsultedInv, PromptInv, NEW decision, NEW by, ask' = Answer(decision, by),
         DOMAIN dialog' = DOMAIN dialog,
         dialog'.shown # "inline" \/ by # Source("user", 0)
  PROVE  PromptInv'
<1>1. ask'.stage = "done" /\ ask'.by = by
  BY DEF Answer, ConsultedInv
<1>2. QED
  BY <1>1 DEF PromptInv, NoStrayKeyApproves

LEMMA PresentShows ==
  ASSUME ConsultedInv, PromptInv, Present
  PROVE  PromptInv'
<1> DEFINE keys == ResolveDialogKeys(current).keys
           view == [doublePress |-> IsOn(current, "doublePressToConfirm"), keys |-> keys,
                    width |-> ask.request.direction # "none", scope |-> ask.request.forwarded]
           shown == IF session.context.tui THEN "inline" ELSE "menu"
           clock == IF "promptTimeoutMs" \in DOMAIN current THEN "ticking" ELSE "none"
<1>1. \A a \in ActionSet : Bindable(keys[a])
  BY DialogKeysResolve
<1>2. ask' = [ask EXCEPT !.stage = "dialog"]
      /\ dialog' = [NoDialog EXCEPT !.shown = shown, !.view = view, !.clock = clock]
  BY DEF Present
<1> HIDE DEF keys, shown, clock
<1>3. view.keys = keys
  OBVIOUS
<1> HIDE DEF view
<1>4. ask'.stage = "dialog"
  BY <1>2 DEF ConsultedInv
<1>5. /\ DOMAIN dialog' = {"shown", "view", "state", "text", "clock", "choice", "touched", "last",
                           "repeated"}
      /\ dialog'.view = view /\ dialog'.state = InitialPromptState
  BY <1>2 DEF NoDialog
<1>6. PromptStates(InitialPromptState) /\ InitialPromptState.armed = NotArmed
  BY DEF PromptStates, InitialPromptState
<1>7. QED
  BY <1>1, <1>3, <1>4, <1>5, <1>6 DEF PromptInv, ArmedByLast, NoStrayKeyApproves

LEMMA ChooseKeepsPrompt ==
  ASSUME ConsultedInv, PromptInv, NEW choice, Choose(choice)
  PROVE  PromptInv'
<1> DEFINE next == NextMenu(dialog.view, choice)
<1>1. next \in {"scope", "reason", "none"}
  BY DEF NextMenu
<1>2. /\ dialog' = [dialog EXCEPT !.shown = next, !.choice = choice]
      /\ ask' = IF next # "none" THEN ask
                ELSE Answer(MenuDecision(dialog.view, choice, "none", "none"), Source("user", 0))
      /\ ask.stage = "dialog"
  BY DEF Choose
<1> HIDE DEF next
<1>3. DOMAIN dialog' = DOMAIN dialog /\ dialog'.shown = next
  BY <1>2 DEF PromptInv
<1>4. CASE next = "none"
  BY <1>2, <1>3, <1>4, DecidedElsewhere
<1>5. CASE next # "none"
  BY <1>1, <1>2, <1>3, <1>5 DEF PromptInv, NoStrayKeyApproves
<1>6. QED
  BY <1>4, <1>5

LEMMA PromptInvStep == JudgeInv /\ PromptInv /\ [Next]_vars => PromptInv'
<1> SUFFICES ASSUME ConsultedInv, PromptInv, [Next]_vars PROVE PromptInv'
  BY DEF JudgeInv
<1>1. CASE \/ \E request \in Asks : Escalate(request)
           \/ OtherLink \/ LinkThrows
           \/ JudgeDefers \/ JudgeAsksForKey \/ JudgeAuth \/ JudgeTimesOut \/ JudgeReplies
           \/ Relay \/ Deny
  <2>1. UNCHANGED dialog /\ ask.stage \in {"idle", "links", "auth", "model"}
    BY <1>1 DEF Escalate, OtherLink, LinkThrows, JudgeDefers, JudgeAsksForKey, JudgeAuth, JudgeTimesOut,
         JudgeReplies, Relay, Deny, Link, Terminal
  <2>2. dialog.shown = "none"
    BY <2>1 DEF PromptInv
  <2>3. QED
    BY <2>1, <2>2, NothingShown
<1>2. ASSUME UNCHANGED <<ask, dialog>> PROVE PromptInv'
  BY <1>2 DEF PromptInv, ArmedByLast, NoStrayKeyApproves
<1>3. CASE Settings \/ BeginSession \/ HandleSessionStart \/ JudgeSessionStart \/ Prepare
           \/ HandleResourcesDiscover \/ HandleSessionShutdown \/ ParentChanges \/ RegisterLink
  BY <1>3, <1>2 DEF Settings, BeginSession, HandleSessionStart, JudgeSessionStart, Prepare,
       HandleResourcesDiscover, HandleSessionShutdown, ParentChanges, RegisterLink, askVars
<1>4. CASE Present
  BY <1>4, PresentShows
<1>5. CASE \E key \in Keyboard : PressKey(key)
  BY <1>5, PressKeyKeepsPrompt
<1>6. CASE AnswerExpires
  <2>1. ask' = Answer(Denied, Source("unanswered", 0)) /\ DOMAIN dialog' = DOMAIN dialog
    BY <1>6 DEF AnswerExpires
  <2>2. Source("unanswered", 0) # Source("user", 0)
    BY DEF Source
  <2>3. QED
    BY <2>1, <2>2, DecidedElsewhere
<1>7. CASE \E choice \in ActionSet \cup {"dismissed"} : Choose(choice)
  BY <1>7, ChooseKeepsPrompt
<1>8. CASE ChooseScope \/ GiveReason
  <2>1. UNCHANGED dialog /\ dialog.shown \in {"scope", "reason"}
    BY <1>8 DEF ChooseScope, GiveReason
  <2>2. \E decision : ask' = Answer(decision, Source("user", 0))
    BY <1>8 DEF ChooseScope, GiveReason
  <2>3. QED
    BY <2>1, <2>2, DecidedElsewhere
<1>9. CASE Return
  <2>1. ask'.stage = "idle" /\ dialog' = NoDialog
    BY <1>9 DEF Return, NoAsk
  <2>2. QED
    BY <2>1 DEF PromptInv, NoDialog, NoStrayKeyApproves
<1>10. CASE UNCHANGED vars
  BY <1>10, <1>2 DEF vars, askVars
<1>11. QED
  BY <1>1, <1>3, <1>4, <1>5, <1>6, <1>7, <1>8, <1>9, <1>10 DEF Next

(* In the inline dialog the decision that is armed is the one the last key *)
(* that counts is bound to, from presentation to answer.                   *)
THEOREM PromptInvariant == Spec => []PromptInv
<1>1. Init => PromptInv
  BY DEF Init, PromptInv, NoAsk, NoDialog, NoStrayKeyApproves
<1>2. JudgeInv /\ PromptInv /\ [Next]_vars => PromptInv'
  BY PromptInvStep
<1>3. QED
  BY <1>1, <1>2, JudgeInvariant, PTL DEF Spec

(* With double press on, no request is approved in the inline dialog by a  *)
(* single key that is not enter, whatever keys are configured, however     *)
(* long the human types, and whatever was armed before.                    *)
THEOREM StrayKeysNeverApprove == Spec => []NoStrayKeyApproves
<1>1. PromptInv => NoStrayKeyApproves
  BY DEF PromptInv
<1>2. QED
  BY <1>1, PromptInvariant, PTL
=============================================================================
