---------------------------- MODULE MCAskAuthority ----------------------------
(* One operator and one project, whose settings name the model judge and      *)
(* another link; requests of a file tool inside and outside the project.      *)
EXTENDS AskAuthority

Bool(b) == <<"boolean", b>>
Str(s) == <<"string", s>>
Num(n) == <<"number", n>>
Arr(names) == <<"array", [i \in DOMAIN names |-> Str(names[i])]>>
Obj(f) == <<"object", f>>
File(f) == <<Obj(f)>>

Chain(names) == ("authorizerChain" :> Arr(names))
Timeout == ("promptTimeoutMs" :> Num(5))
Keys(f) == ("permissionDialogKeys" :> Obj([a \in DOMAIN f |-> Str(f[a])]))

(* Each override takes the default of the next one, and the last is refused:  *)
(* three rounds of dropping.                                                  *)
ChainedKeys == Keys(("approve" :> "s") @@ ("approveSession" :> "b") @@ ("approveSessionBoth" :> "n"))
(* A swap is kept; a reserved key, one that cannot be typed are not.          *)
MixedKeys == Keys(("approve" :> "n") @@ ("deny" :> "y") @@ ("approveSession" :> "j")
                    @@ ("denyWithReason" :> "Y"))

Plain == File(Chain(<<"model-judge", "other">>) @@ Timeout)
Swapped == File(MixedKeys @@ Chain(<<"model-judge">>))
Contesting == File(ChainedKeys @@ ("doublePressToConfirm" :> Bool(FALSE)))
(* A project that would have everything its way.                              *)
Greedy == File(("yoloMode" :> Bool(TRUE)) @@ Chain(<<"other">>)
               @@ ("permission" :> Obj(<<"*">> :> Str("allow")))
               @@ ("shellTools" :> Obj("run" :> Obj("commandArgument" :> Str("cmd"))))
               @@ ("commandEffects" :> Obj(("jq" :> Obj("effects" :> Str("read")))
                                           @@ ("cat" :> Obj("effects" :> Arr(<<"read">>))))))
Malformed == File(("debugLog" :> Str("yes")) @@ ("toolInputPreviewMaxLength" :> Num(3)))
Agent == File("permission" :> Obj((<<"bash">> :> Obj(("*" :> Str("ask")) @@ ("x" :> Str("no"))))
                                  @@ (<<"read">> :> Str("allow"))))

NoFiles == [layer \in AllLayers |-> Missing]
With(assigned) == assigned @@ NoFiles
AllStarts ==
  {With("global" :> Plain), With("global" :> Contesting),
   With(("legacyGlobal" :> Plain) @@ ("global" :> Swapped)
        @@ ("legacyProject" :> Greedy) @@ ("projectAgent" :> Agent))}
Contents ==
  [NoFiles EXCEPT !["global"] = {Malformed}, !["legacyGlobal"] = {}, !["legacyExtension"] = {},
                  !["legacyProject"] = {Greedy}, !["project"] = {Greedy, Broken}, !["agent"] = {Agent},
                  !["projectAgent"] = {Broken}]

AllContexts == {[ui |-> TRUE, tui |-> TRUE, child |-> FALSE], [ui |-> TRUE, tui |-> FALSE, child |-> TRUE],
                [ui |-> FALSE, tui |-> FALSE, child |-> FALSE]}
Request(tool, values, direction, forwarded, licensed) ==
  [tool |-> tool, values |-> values, direction |-> direction, forwarded |-> forwarded,
   licensed |-> licensed]
AllAsks ==
  {Request("read", <<"/src/x", "/scr/x">>, "read", FALSE, FALSE),
   Request("edit", <<"/other", "/scr/x">>, "none", TRUE, TRUE),
   Request("bash", <<>>, "none", FALSE, FALSE)}

JudgeSettings == ("provider" :> Str("p")) @@ ("model" :> Str("m")) @@ ("instructions" :> Str("i"))
Typos == ("typoPatterns" :> <<"array", <<{"bad"}, {"/scr/x", "/srv/y"}>>>>)
AllJudgeFiles ==
  {<<File(JudgeSettings @@ Typos), Missing>>,
   <<File(JudgeSettings), File(Typos @@ ("timeoutMs" :> Num(0)))>>}
Models == {"m"}
Pressed == {"down", "enter", "escape", "y", "r", "ctrl+o"}
=============================================================================
