-------------------------- MODULE PermissionPolicy --------------------------
(* How the permission system turns its configuration into a verdict: the      *)
(* merge of the four scopes, the ordered list of rules, the last rule that    *)
(* matches, the grants of the session appended to it, and the clamps.         *)
(*                                                                            *)
(* A surface, a pattern and a value are sequences of atoms: a word and a      *)
(* blank of a command, a component and a slash of a path, a part of a tool's  *)
(* name.  A JavaScript object is a sequence of entries with distinct keys, in *)
(* insertion order: a scope's permissions are entries [key, flat, map], where *)
(* "flat" says the value was a bare state and map is then <<[key "*"]>>.      *)
EXTENDS Integers, Sequences, SequencesExt

CONSTANT McpServers         \* the configured MCP servers: a name and what it is
                            \* sanitized to for pi's own tools, <<name, sanitized>>

Allow == "allow"
Ask == "ask"
Deny == "deny"
States == {Allow, Ask, Deny}
Star == <<"*">>
Bash == <<"bash">>
Mcp == <<"mcp">>
Skill == <<"skill">>
Families == {<<"path">>, <<"external_directory">>}
PathTools == {<<"read">>, <<"write">>, <<"edit">>, <<"find">>, <<"grep">>, <<"ls">>}
None == <<>>                \* no pattern: nothing the user wrote decided

\* What is matched against what.
Strictness == [allow |-> 0, ask |-> 1, deny |-> 2]

WildcardMatch(pattern, value) ==
  LET p == Len(pattern)
      v == Len(value)
      \* A trailing blank and star also match nothing at all.
      optionalTail == p > 2 /\ SubSeq(pattern, p - 1, p) = <<" ", "*">>
      m[i \in 1..p+1, j \in 1..v+1] ==
        \/ i > p /\ j > v
        \/ optionalTail /\ i = p - 1 /\ j > v
        \/ /\ i <= p /\ pattern[i] = "*"
           /\ m[i + 1, j] \/ (j <= v /\ m[i, j + 1])
        \/ /\ i <= p /\ j <= v /\ pattern[i] # "*"
           /\ pattern[i] \in {"?", value[j]}
           /\ m[i + 1, j + 1]
  IN  m[1, 1]

RuleMatches(rule, surface, value) ==
  /\ WildcardMatch(rule.surface, surface)
  /\ WildcardMatch(rule.pattern, value)

\* The two halves of the families "path" and "external_directory".
Members(surface) ==
  IF surface \in Families THEN {Append(surface, "_read"), Append(surface, "_write")}
                          ELSE {surface}
FamilyOf(surface) ==
  IF Len(surface) = 2 /\ <<surface[1]>> \in Families THEN <<surface[1]>> ELSE surface
SurfaceForEffect(family, effect) ==
  IF effect = "unproven" THEN family ELSE Append(family, "_" \o effect)
EffectOfTool(tool) ==
  CASE tool \in {<<"read">>, <<"find">>, <<"grep">>, <<"ls">>} -> "read"
    [] tool = <<"write">> -> "write"
    [] OTHER -> "unproven"
IsMcpTool(name) ==
  /\ name # <<>> /\ name[1] = "mcp__"
  /\ LET at == SelectInSeq(name, LAMBDA a : a = "__") IN 2 < at /\ at < Len(name)
CanNameMcpTool(name) ==
  IsMcpTool(name) \/ (name # <<>> /\ name[1] = "mcp__" /\ ToSet(name) \cap {"*", "?"} # {})

-----------------------------------------------------------------------------
(* Ordered objects. *)

Keys(entries) == {entries[i].key : i \in DOMAIN entries}
At(entries, key) == entries[CHOOSE i \in DOMAIN entries : entries[i].key = key]
Without(entries, keys) == LET Keep(e) == e.key \notin keys IN SelectSeq(entries, Keep)
Put(entries, entry) ==
  IF entry.key \in Keys(entries)
  THEN [i \in DOMAIN entries |-> IF entries[i].key = entry.key THEN entry ELSE entries[i]]
  ELSE Append(entries, entry)
Spread(base, over) == FoldLeft(Put, base, over)

\* A key that names a family stands for both members; a member's own entry
\* comes after what it inherits, wherever the two keys are written.
ExpandSugar(perms) ==
  LET Explicit(sugar, member) ==
        IF member \in Keys(perms)
        THEN LET own == At(perms, member)
             IN  [key |-> member, flat |-> FALSE,
                  map |-> Without(sugar.map, Keys(own.map)) \o own.map]
        ELSE [sugar EXCEPT !.key = member]
      Step(acc, entry) ==
        IF entry.key \in Families
        THEN LET read == Append(entry.key, "_read")
                 write == Append(entry.key, "_write")
             IN  Put(Put(acc, Explicit(entry, read)), Explicit(entry, write))
        ELSE IF entry.key \in Keys(acc) THEN acc ELSE Append(acc, entry)
  IN  FoldLeft(Step, <<>>, perms)

\* Two maps are spread into each other, anything else replaces.
MergeScope(merged, scope) ==
  LET Step(acc, entry) ==
        Put(acc, IF entry.key \in Keys(acc) /\ ~entry.flat /\ ~At(acc, entry.key).flat
                 THEN [entry EXCEPT !.map = Spread(At(acc, entry.key).map, entry.map)]
                 ELSE entry)
  IN  FoldLeft(Step, merged, ExpandSugar(scope.perms))

-----------------------------------------------------------------------------
(* The rules a configuration comes to.  A configuration is the sequence of    *)
(* its scopes: global, project, agent, project-agent.                         *)

Rule(surface, pattern, action, layer, origin) ==
  [surface |-> surface, pattern |-> pattern, action |-> action,
   layer |-> layer, origin |-> origin]

NormalizeFlatConfig(perms) ==
  LET RulesOf(entry) ==
        LET Valid(e) == e.action \in States
            good == SelectSeq(entry.map, Valid)
        IN  [i \in DOMAIN good |->
               Rule(entry.key, good[i].key, good[i].action, "config", "config")]
      kept == Without(perms, {Star})
  IN  FlattenSeq([i \in DOMAIN kept |-> RulesOf(kept[i])])

UniversalDefault(perms) ==
  LET set == Star \in Keys(perms) /\ At(perms, Star).flat
                /\ At(perms, Star).map[1].action \in States
  IN  IF set THEN Rule(Star, Star, At(perms, Star).map[1].action, "default", "config")
             ELSE Rule(Star, Star, Ask, "default", "builtin")

\* One allowed MCP target makes the five targets that only look allowed too.
Baseline(rules) ==
  LET targets == <<"mcp_status", "mcp_list", "mcp_search", "mcp_describe", "mcp_connect">>
  IN  IF \E i \in DOMAIN rules : rules[i].surface = Mcp /\ rules[i].action = Allow
      THEN [i \in DOMAIN targets |-> Rule(Mcp, <<targets[i]>>, Allow, "baseline", "baseline")]
      ELSE <<>>

\* A rule keyed by an MCP tool's own name is repeated on the surface "mcp".
Relocate(rules) ==
  LET Movable(r) == r.pattern = Star /\ CanNameMcpTool(r.surface)
      moved == SelectSeq(rules, Movable)
  IN  rules \o [i \in DOMAIN moved |->
                  [moved[i] EXCEPT !.surface = Mcp, !.pattern = moved[i].surface]]

FloorAllowsToAsk(rules) ==
  [i \in DOMAIN rules |-> IF rules[i].action = Allow
                          THEN [rules[i] EXCEPT !.action = Ask, !.origin = "fail-closed"]
                          ELSE rules[i]]

PolicyRules(scopes) ==
  LET merged == FoldLeft(MergeScope, <<>>, scopes)
      config == NormalizeFlatConfig(merged)
      composed == <<UniversalDefault(merged)>> \o Baseline(config) \o Relocate(config)
  IN  IF \E i \in DOMAIN scopes : i > 1 /\ scopes[i].invalid
      THEN FloorAllowsToAsk(composed)
      ELSE composed

-----------------------------------------------------------------------------
(* Verdicts. *)

Evaluate(rules, surface, values) ==
  LET hits == {i \in DOMAIN rules : \E v \in values : RuleMatches(rules[i], surface, v)}
  IN  IF hits = {} THEN Rule(surface, None, Ask, "none", "builtin")
      ELSE rules[CHOOSE i \in hits : \A j \in hits : j <= i]

RewriteAsksToYolo(rules) ==
  [i \in DOMAIN rules |-> IF rules[i].action = Ask
                          THEN [rules[i] EXCEPT !.action = Allow, !.origin = "yolo"]
                          ELSE rules[i]]

\* "floored" says a bash command's own uncertainty asked, not a rule; "asking"
\* holds the units of a chain that ask.
Verdict(state, pattern, source, origin) ==
  [state |-> state, pattern |-> pattern, source |-> source, origin |-> origin,
   floored |-> FALSE, command |-> None, asking |-> <<>>]

Check(rules, session, yolo, surface, values) ==
  LET all == rules \o session
      rule == Evaluate(IF yolo THEN RewriteAsksToYolo(all) ELSE all, surface, values)
  IN  Verdict(rule.action,
              IF rule.layer \in {"config", "session"} THEN rule.pattern ELSE None,
              IF rule.layer = "session" THEN "session" ELSE "rule", rule.origin)

MostRestrictive(verdicts) ==
  verdicts[CHOOSE i \in DOMAIN verdicts :
             /\ \A j \in DOMAIN verdicts :
                  Strictness[verdicts[j].state] <= Strictness[verdicts[i].state]
             /\ \A j \in 1..i-1 :
                  Strictness[verdicts[j].state] < Strictness[verdicts[i].state]]

\* The bare name of a family asks both of its members.
Resolve(rules, session, yolo, surface, values) ==
  IF surface \in Families
  THEN MostRestrictive(<<Check(rules, session, yolo, Append(surface, "_read"), values),
                         Check(rules, session, yolo, Append(surface, "_write"), values)>>)
  ELSE Check(rules, session, yolo, surface, values)

\* The names an MCP call goes by, from the most specific to the most general.
\* A reference is <<tool>> words, or server, ":" and tool.
McpReference(reference, hint) ==
  LET qualified == \E i \in 2..Len(reference)-1 : reference[i] = ":"
      colon == IF qualified THEN SelectInSeq(reference, LAMBDA a : a = ":") ELSE 0
      tool == SubSeq(reference, colon + 1, Len(reference))
      server == IF hint # None THEN hint
                ELSE IF qualified THEN SubSeq(reference, 1, colon - 1) ELSE None
      names == {s[1] : s \in McpServers}
      prefixes == {s \in names : IsPrefix(Append(s, "_"), tool)}
      longest == {s \in prefixes : \A t \in prefixes : Len(t) <= Len(s)}
      suffixes == {s \in names : IsSuffix(<<"_">> \o s, tool)}
      Of(s) == {s \o <<"_">> \o tool, s \o <<":">> \o tool, s}
  IN  {tool, reference} \cup
        (IF server # None
         THEN IF IsPrefix(Append(server, "_"), tool) THEN {server} ELSE Of(server)
         ELSE IF prefixes # {} THEN longest ELSE UNION {Of(s) : s \in suffixes})

\* What the one tool "mcp" was asked to do decides which of its names count.
McpTargets(input) ==
  LET s == input.server
      OfServer == IF s = None THEN {} ELSE {<<"mcp_server_">> \o s, s}
  IN  {Mcp} \cup
      CASE input.op = "call" -> McpReference(input.name, s) \cup {<<"mcp_call">>}
        [] input.op = "connect" ->
             {<<"mcp_connect_">> \o input.name, input.name, <<"mcp_connect">>}
        [] input.op = "describe" -> McpReference(input.name, s) \cup {<<"mcp_describe">>}
        [] input.op = "search" -> OfServer \cup {input.name, <<"mcp_search">>}
        [] input.op = "list" -> OfServer \cup {<<"mcp_list">>}
        [] OTHER -> {<<"mcp_status">>}

\* A tool of pi's own is "mcp__", the sanitized server, "__" and the tool.  The
\* longest configured server it starts with owns it, under every spelling.
McpToolTargets(name) ==
  LET rest == Tail(name)
      owners == {s \in McpServers : IsPrefix(Append(s[2], "__"), rest)}
      owner == {s \in owners : \A t \in owners : Len(t[2]) <= Len(s[2])}
      server == IF owner # {} THEN (CHOOSE s \in owner : TRUE)[2]
                ELSE SubSeq(rest, 1, SelectInSeq(rest, LAMBDA a : a = "__") - 1)
      tool == SubSeq(rest, Len(server) + 2, Len(rest))
      Of(s) == {s \o <<"_">> \o tool, s \o <<":">> \o tool, s}
  IN  UNION {Of(s) : s \in {server} \cup {o[1] : o \in owner}}
        \cup {tool, name, <<"mcp_call">>, Mcp}

SurfaceOfTool(tool) == IF IsMcpTool(tool) THEN Mcp ELSE tool
ValuesOfTool(tool, input) ==
  IF IsMcpTool(tool) THEN McpToolTargets(tool)
  ELSE IF tool = Mcp THEN McpTargets(input) ELSE {Star}

\* (Only what the surface says of everything is looked at.)
IsSurfaceFullyDeniedAtLarge(surface, rules) == Evaluate(rules, surface, {Star}).action = Deny

\* Denied whatever the value: every pattern that could say otherwise is probed.
IsSurfaceFullyDenied(surface, rules) ==
  LET probes == {Star} \cup {rules[i].pattern :
                   i \in {k \in DOMAIN rules : WildcardMatch(rules[k].surface, surface)}}
  IN  \A v \in probes : Evaluate(rules, surface, {v}).action = Deny
IsToolFullyDenied(tool, rules) ==
  IF IsMcpTool(tool) THEN Evaluate(rules, Mcp, McpToolTargets(tool)).action = Deny
                     ELSE IsSurfaceFullyDenied(tool, rules)

-----------------------------------------------------------------------------
(* What an answer "for this session" adds. *)

Widen(grant, width) ==
  IF width = "family" THEN [grant EXCEPT !.surface = FamilyOf(grant.surface)] ELSE grant
SessionRulesOf(grants, width) ==
  LET One(g) == LET w == Widen(g, width)
                    r(s) == Rule(s, w.pattern, Allow, "session", "session")
                IN  IF w.surface \in Families
                    THEN <<r(Append(w.surface, "_read")), r(Append(w.surface, "_write"))>>
                    ELSE <<r(w.surface)>>
  IN  FlattenSeq([i \in DOMAIN grants |-> One(grants[i])])

\* A request forwarded by a child session keeps the floor the child put on it.
HonorChildFloor(verdict, floored, yolo) ==
  IF ~floored \/ verdict.state # Allow \/ verdict.source = "session" THEN verdict
  ELSE IF yolo THEN [verdict EXCEPT !.origin = "yolo"]
  ELSE [verdict EXCEPT !.state = Ask]
============================================================================
