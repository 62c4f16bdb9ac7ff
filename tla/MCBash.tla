------------------------------ MODULE MCBash ------------------------------
(* A session in /w with a home in /h: files /w/a, /w/d/a, /w/d/k, /e/a, /k and *)
(* a link /w/l to the root; "a" and "k" are typed bare, the others in full.    *)
EXTENDS BashScripts

MCMcpServers == {<<<<"srv">>, <<"srv">>>>}
MCLex ==
  ("-delete" :> [Plain EXCEPT !.form = "short", !.letters = <<"d", "e", "l", "e", "t", "e">>])
  @@ ("-o" :> [Plain EXCEPT !.form = "short", !.letters = <<"o">>])
  @@ ("-c" :> [Plain EXCEPT !.form = "short", !.letters = <<"c">>])
  @@ ("-u" :> [Plain EXCEPT !.form = "short", !.letters = <<"u">>])
  @@ ("$()" :> [Plain EXCEPT !.computed = TRUE, !.mayDash = TRUE, !.literal = FALSE,
                             !.text = <<"$", "(", ")">>])
  @@ ("/e/a" :> [Plain EXCEPT !.text = <<"/", "e", "/", "a">>])
  @@ ("../e" :> [Plain EXCEPT !.text = <<"..", "/", "e">>])
  @@ ("l/k" :> [Plain EXCEPT !.text = <<"l", "/", "k">>])
Path(root, segs) == [root |-> root, segs |-> segs, named |-> TRUE, verbatim |-> TRUE]
MCSpelled ==
  ("/e/a" :> Path("abs", <<"e", "a">>)) @@ ("../e" :> Path("rel", <<"..", "e">>))
  @@ ("l/k" :> Path("rel", <<"l", "k">>))
  @@ ("$()" :> [root |-> "none", segs |-> <<>>, named |-> FALSE, verbatim |-> FALSE])
MCDeclared == <<>>
MCArities == <<>>
MCCwd == <<"w">>
MCHome == <<"h">>
MCLinks == <<"w", "l">> :> <<>>
MCDirectories == {<<>>, <<"w">>, <<"w", "d">>, <<"e">>, <<"h">>}
MCExisting == MCDirectories \cup
  {<<"w", "a">>, <<"w", "d", "a">>, <<"w", "d", "k">>, <<"e", "a">>, <<"k">>}
MCSafePaths == {<<"dev", "null">>}

Reads(c, w) == [words |-> <<c, w>>, touches |-> {<<w, "read">>}]
MCSimples ==
  {Reads("cat", "a"), Reads("cat", "l/k"), [words |-> <<"rm", "a">>, touches |-> {<<"a", "write">>}],
   [words |-> <<"cd", "d">>, touches |-> {}], [words |-> <<"cd", "../e">>, touches |-> {}],
   [words |-> <<"find", "a", "-delete">>, touches |-> {<<"a", "write">>}],
   [words |-> <<"sort", "a", "-o", "/e/a">>, touches |-> {<<"a", "read">>, <<"/e/a", "write">>}]}
MCWrappers == {<<"timeout", "5">>, <<"sudo", "-u", "me">>, <<"xargs">>}
MCRedirects == {[redirect |-> Redirect(">", "/e/a"), effect |-> "write"],
                [redirect |-> Redirect("<", "k"), effect |-> "read"]}

\* A surface's entry of a configuration, and a bare state for it.
E(key, action) == [key |-> key, action |-> action]
On(key, map) == [key |-> key, flat |-> FALSE, map |-> map]
All(key, action) == [key |-> key, flat |-> TRUE, map |-> <<E(Star, action)>>]
Scoped(perms) == <<[perms |-> perms, invalid |-> FALSE]>>
MCPolicies ==
  {PolicyRules(Scoped(<<On(Bash, <<E(Star, Allow), E(<<"rm", " ", "*">>, Deny)>>),
                        All(<<"external_directory">>, Allow),
                        All(<<"task">>, Deny), All(<<"mcp__", "srv", "__", "t">>, Deny)>>)),
   PolicyRules(Scoped(<<All(Bash, Allow), All(Mcp, Deny),
     On(<<"path">>, <<E(Star, Allow), E(<<"*", "/", "d", "/", "k">>, Ask)>>),
     On(<<"path", "_write">>, <<E(<<"*", "/", "d", "/", "a">>, Deny)>>),
     All(<<"external_directory", "_read">>, Allow)>>)),
   PolicyRules(Scoped(<<All(<<"external_directory">>, Allow),
     On(Bash, <<E(Star, Allow), E(<<"cat", " ", "/", "e", "/", "*">>, Deny),
                E(<<"cat", " ", "*", "/", "k">>, Ask)>>),
     On(Mcp, <<E(Star, Deny), E(<<"mcp_call">>, Ask), E(<<"srv", "_", "*">>, Allow)>>)>>))}

\* Every order of three patterns of a surface, with everything refused at large.
Orders(S) == {o \in [1..3 -> S] : (\A i, j \in 1..3 : i # j => o[i] # o[j]) /\ Star \in {o[i] : i \in 1..3}}
OfSurface(key, patterns) ==
  {PolicyRules(Scoped(<<On(key, [i \in 1..3 |-> E(o[i], IF o[i] = Star THEN Deny ELSE act[i])])>>)) :
     o \in Orders(patterns \cup {Star}), act \in [1..3 -> {Allow, Deny}]}
MCExposures ==
  MCPolicies
  \cup OfSurface(Mcp, {<<"srv", "_", "*">>, <<"srv", "_", "?">>, <<"*", "1">>, <<"mcp_call">>})
  \cup OfSurface(<<"read">>, {<<"/", "w", "/", "*">>, <<"/", "?">>, <<"*", "/", "k">>})

McpInput(op, name, server) == [op |-> op, name |-> name, server |-> server]
MCToolCalls ==
  {ToolCall(<<"read">>, "l/k", <<>>), ToolCall(<<"edit">>, "a", <<>>),
   ToolCall(<<"write">>, "/e/a", <<>>), ToolCall(<<"task">>, "", <<>>),
   ToolCall(<<"mcp__", "srv", "__", "t">>, "", <<>>),
   ToolCall(Mcp, "", McpInput("call", <<"srv", ":", "t">>, None)),
   ToolCall(Mcp, "", McpInput("call", <<"t">>, <<"srv">>)),
   ToolCall(Mcp, "", McpInput("call", <<"srv", ":", "t", "1">>, None)),
   ToolCall(Mcp, "", McpInput("search", <<"t">>, None)),
   ToolCall(Mcp, "", McpInput("connect", <<"srv">>, None)),
   ToolCall(Mcp, "", McpInput("describe", <<"srv", "_", "t">>, None)),
   ToolCall(Mcp, "", McpInput("list", None, <<"srv">>)),
   ToolCall(Mcp, "", McpInput("status", None, None))}
MCListedSkills == {[location |-> <<"w", "l", "k">>, state |-> Ask]}
=============================================================================
