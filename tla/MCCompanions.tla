----------------------------- MODULE MCCompanions -----------------------------
(* One TypeScript file and one Markdown file of a repository, opened in a     *)
(* subdirectory, and a file outside it.                                       *)
EXTENDS Companions, TLC

CONSTANTS bad, unreadable

Paths == ("a.ts" :> "A") @@ ("./a.ts" :> "A") @@ ("b.md" :> "B") @@ ("/x.ts" :> "X")
Dirs == ("A" :> "sub") @@ ("B" :> "repo") @@ ("X" :> "/")
Exts == ("A" :> ".ts") @@ ("B" :> ".md") @@ ("X" :> ".ts")
Parents == ("sub" :> "repo") @@ ("repo" :> "/") @@ ("/" :> "/")

Single(n) == [kind |-> "single", names |-> <<n>>, extra |-> FALSE]
Fallback(names) == [kind |-> "fallback", names |-> names, extra |-> FALSE]
Declared(n) == [command |-> <<n>>]
Off(n) == [command |-> <<n>>, disabled |-> TRUE]

(* A dispatcher over chains of each extension.                                *)
Dispatched ==
  <<None,
    [formatters |-> ("biome" :> Declared("biome")) @@ ("eslint" :> [command |-> <<"$FILE">>]),
     chains |-> ("*" :> <<Fallback(<<"treefmt-nix", "treefmt">>)>>)
             @@ (".ts" :> <<Fallback(<<"biome", "prettier">>)>>)
             @@ (".md" :> <<Single("prettier"), Single("markdownlint-cli2")>>),
     shellMutationDetection |-> [enabled |-> TRUE, wrappers |-> <<[prefix |-> "codegen"]>>]]>>

(* A global file the project overrides in part: its chain for .ts names a     *)
(* formatter only the other file has, and falls away.                         *)
Overridden ==
  <<[formatters |-> ("eslint" :> Declared("eslint")),
     chains |-> (".ts" :> <<Single("eslint"), Single("prettier")>>)
             @@ (".md" :> <<Single("prettier")>>),
     customMutationTools |-> <<[toolName |-> "patch", given |-> 1, fields |-> <<"file">>,
                                extra |-> FALSE]>>],
    [formatters |-> ("prettier" :> Off("prettier")) @@ ("treefmt" :> Off("treefmt")),
     chains |-> (".ts" :> <<Single("eslint"), Single("markdownlint-cli2")>>)
             @@ (".md" :> <<Single("treefmt"), Single("markdownlint-cli2"),
                            Fallback(<<"treefmt-nix", "prettier">>)>>),
     shellMutationDetection |-> bad, customMutationTools |-> bad]>>

(* Dispatchers one after the other, after a file that does not parse.         *)
Stacked ==
  <<unreadable,
    [formatScope |-> [kind |-> "list", roots |-> <<"repo">>], commandTimeoutMs |-> 0,
     hideSummariesInTui |-> bad, formatterOutput |-> [onFailure |-> "both", maxBytes |-> bad],
     chains |-> ("*" :> <<Fallback(<<"treefmt", "treefmt-nix">>), Single("prettier")>>)
             @@ (".ts" :> <<[kind |-> "bad", names |-> <<>>, extra |-> FALSE],
                            Single("prettier")>>)
             @@ (".md" :> <<Single("treefmt-nix"), Fallback(<<"markdownlint-cli2">>)>>),
     eventBusMutationChannel |-> [enabled |-> FALSE, channel |-> bad]]>>

NoCommand == [opaque |-> TRUE, words |-> <<>>, prefixes |-> {}]
Result(tool, input, command, lines, truth) ==
  [tool |-> tool, input |-> input, command |-> command, lines |-> lines, error |-> FALSE,
   truth |-> truth]
Call(tool, field, spelling) ==
  Result(tool, field :> <<spelling>>, NoCommand, <<>>, {Paths[spelling]})
Simple(words) == [opaque |-> FALSE, words |-> words, prefixes |-> {}]
Shell(words, truth) == Result("bash", None, Simple(words), <<>>, truth)

Opaque == [NoCommand EXCEPT !.words = <<"sort", "a.ts", "tee", "b.md">>]

AllLayers == {Dispatched, Overridden, Stacked}
AllResults ==
  {Call("write", "path", "a.ts"), Call("patch", "file", "b.md"),
   [Call("edit", "path", "b.md") EXCEPT !.error = TRUE],
   Shell(<<"sed", "-i", "", "s/x/y/", "./a.ts">>, {"A"}),
   Shell(<<"sed", "s/x/y/", "a.ts">>, {}),
   Shell(<<"mv", "-f", "--", "b.md", "a.ts">>, {"A"}),
   Shell(<<"cp", "-t", "d", "b.md">>, {}),
   Shell(<<"echo", "x", ">", "b.md", ">>", "a.ts">>, {"A", "B"}),
   Shell(<<"tee", "-a", "/x.ts", "b.md">>, {"X", "B"}),
   Shell(<<"touch", "-c", "b.md">>, {"B"}),
   Result("bash", None, Opaque, <<>>, {}),
   Result("bash", None, [Simple(<<"codegen">>) EXCEPT !.prefixes = {"codegen"}],
          <<"b.md", "">>, {"B"})}
AllTouches == {"b.md", "/x.ts"}
=============================================================================
