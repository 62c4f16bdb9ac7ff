----------------------------- MODULE BashScripts -----------------------------
(* The reading of shell programs against the shell itself.  A script is built *)
(* step by step, the way an agent writes one: commands in sequence, in a      *)
(* pipe, in the background, in a subshell, in a substitution, behind a        *)
(* wrapper, with a redirect.  Next to it stand the commands the shell will    *)
(* run and the files it will touch, and the verdict of the gates on the       *)
(* script is held against both.                                               *)
EXTENDS GateDescriptors, FiniteSets

CONSTANTS Simples,      \* commands [words, touches], with the words that are files
                        \* and what becomes of them, <<word, "read" or "write">>
          Wrappers,     \* wrappers, sequences of words
          Redirects,    \* redirects with what they do: [redirect, effect]
          Policies,     \* the rules of each configuration the script is held against
          Exposures,    \* the rules of each configuration that decides what tools are shown
          ToolCalls,    \* calls of other tools than the shell
          ListedSkills, \* the skills the prompt lists, [location, state]
          MaxSteps      \* bound: steps a script is built in

VARIABLES script,       \* the tree
          runs,         \* the commands the shell runs, with the directory of each
          files,        \* the files it touches, [path, effect, named]
          dirs,         \* its directory, before the last command and after it
          steps,
          called        \* the call that is made: [kind, call], of kind "none",
                        \* "script" for the shell with the script, or "tool"

vars == <<script, runs, files, dirs, steps, called>>

\* Where the parser lost its way shows in everything around it.
Grown(node) == [node EXCEPT !.err = \E k \in ToSet(node.kids \o node.hosted) : k.err]

Moves(c) == c.words[1] = "cd"
DirAfter(c, dir) == IF Moves(c) THEN Located(PathOf(c.words[2]), Known(dir)) ELSE dir
File(w, dir, effect, certain) ==
  LET path == Located(PathOf(w), Known(dir))
  IN  [path |-> path, effect |-> effect,
       named |-> certain \/ PathOf(w).named \/ path \in Existing]
TouchedIn(c, dir) == {File(t[1], dir, t[2], FALSE) : t \in c.touches}
Opened(r, dir) == {File(r.redirect.dest, dir, r.effect, TRUE)}
Run(c, dir) == {[words |-> c.words, dir |-> dir]}

ToolCall(tool, file, mcp) ==
  [tool |-> tool, file |-> file, shell |-> FALSE, program |-> NoProgram, mcp |-> mcp]
NoCall == ToolCall(<<>>, "", <<>>)
Call(kind, call) == [kind |-> kind, call |-> call]

Init ==
  /\ script = Command(<<>>)
  /\ runs = {} /\ files = {}
  /\ dirs = <<Cwd, Cwd>>
  /\ steps = 0 /\ called = Call("none", NoCall)

Step ==
  /\ called.kind = "none" /\ 0 < steps /\ steps < MaxSteps
  /\ steps' = steps + 1 /\ UNCHANGED called
\* The code reads a condition and a substitution from the directory they stand
\* in and folds no "cd" inside them; scripts that move there are not built.
Followed == \A r \in runs : r.words[1] # "cd"

-----------------------------------------------------------------------------

\* The first command.
Begin(c) ==
  /\ called.kind = "none" /\ steps = 0 /\ steps' = 1 /\ UNCHANGED called
  /\ script' = Command(c.words)
  /\ runs' = Run(c, Cwd)
  /\ files' = TouchedIn(c, Cwd)
  /\ dirs' = <<Cwd, DirAfter(c, Cwd)>>

\* script ; c
Then(c) ==
  /\ Step
  /\ script' = Grown(Node("list", (IF script.t = "list" THEN script.kids ELSE <<script>>)
                                    \o <<Command(c.words)>>))
  /\ runs' = runs \cup Run(c, dirs[2])
  /\ files' = files \cup TouchedIn(c, dirs[2])
  /\ dirs' = <<dirs[2], DirAfter(c, dirs[2])>>

\* script & c
Background(c) ==
  /\ Step
  /\ script.t # "list"
  /\ script' = Node("list", <<[script EXCEPT !.bg = TRUE], Command(c.words)>>)
  /\ runs' = runs \cup Run(c, Cwd)
  /\ files' = files \cup TouchedIn(c, Cwd)
  /\ dirs' = <<Cwd, DirAfter(c, Cwd)>>

\* script | c
Pipe(c) ==
  /\ Step
  /\ script.t \in {"command", "subshell"}
  /\ script' = Grown(Node("pipeline", <<script, Command(c.words)>>))
  /\ runs' = runs \cup Run(c, Cwd)
  /\ files' = files \cup TouchedIn(c, Cwd)
  /\ dirs' = <<Cwd, Cwd>>

\* a ; b > f | c, which reads as a pipeline that starts with the list
PipeOfList(r, c) ==
  /\ Step
  /\ script.t = "list" /\ \A i \in DOMAIN script.kids : ~script.kids[i].bg
  /\ script' = Grown(Node("pipeline", <<Grown(Redirected(script, r.redirect)),
                                       Command(c.words)>>))
  /\ runs' = runs \cup Run(c, dirs[1])
  /\ files' = files \cup TouchedIn(c, dirs[1]) \cup Opened(r, dirs[1])
  /\ dirs' = <<dirs[1], dirs[1]>>

\* ( script )
Subshell ==
  /\ Step /\ UNCHANGED <<runs, files>>
  /\ script.t # "subshell"
  /\ script' = Grown(Node("subshell", IF script.t = "list" THEN script.kids ELSE <<script>>))
  /\ dirs' = <<Cwd, Cwd>>

\* { script; }
Group ==
  /\ Step /\ UNCHANGED <<runs, files>>
  /\ script.t \notin {"group", "subshell"}
  /\ script' = Grown(Node("group", IF script.t = "list" THEN script.kids ELSE <<script>>))
  /\ dirs' = <<Cwd, dirs[2]>>

\* if true; then script; fi
Condition ==
  /\ Step /\ Followed /\ UNCHANGED files
  /\ script.t \in {"command", "list"}
  /\ script' = Grown(Node("if", <<Command(<<"true">>)>>
                                  \o (IF script.t = "list" THEN script.kids ELSE <<script>>)))
  /\ runs' = runs \cup Run(Command(<<"true">>), Cwd)
  /\ dirs' = <<Cwd, dirs[2]>>

\* echo "$( script )"
Substitute ==
  /\ Step /\ Followed /\ UNCHANGED files
  /\ LET outer == Command(<<"echo", "$()">>)
     IN  /\ script' = Grown([outer EXCEPT !.hosted = <<Grown(Node("substitution", <<script>>))>>])
         /\ runs' = runs \cup Run(outer, Cwd)
  /\ dirs' = <<Cwd, Cwd>>

\* script > f.  The shell opens f before it runs the last command, the code
\* reads f from the directory after it: not built behind a "cd".
RedirectTo(r) ==
  /\ Step /\ UNCHANGED <<runs, dirs>>
  /\ script.t \in {"command", "list", "group", "subshell"}
  /\ dirs[1] = dirs[2]
  /\ script' = Grown(Redirected(script, r.redirect))
  /\ files' = files \cup Opened(r, dirs[1])

\* wrapper script.  A wrapped "cd" moves nobody, and of a wrapped wrapper only
\* the whole and the command at its core have rules of their own.
Wrap(wrapper) ==
  /\ Step /\ UNCHANGED files
  /\ script.t = "command" /\ script.hosted = <<>>
  /\ LET wrapped == Command(wrapper \o script.words)
         Core(r) == r.words # script.words \/ \E c \in Simples : c.words = r.words
     IN  /\ script' = wrapped
         /\ runs' = {r \in runs : Core(r)} \cup Run(wrapped, Cwd)
  /\ dirs' = <<Cwd, Cwd>>

\* The parser loses its way in the last command, and may find it again when
\* that is parsed alone.
Misread(found) ==
  /\ Step /\ UNCHANGED <<runs, files, dirs>>
  /\ script.t = "list" /\ ~script.err
  /\ LET lost == [Last(script.kids) EXCEPT !.err = TRUE,
                    !.again = IF found THEN <<Node("program", <<Last(script.kids)>>)>> ELSE <<>>]
     IN  script' = [script EXCEPT !.err = TRUE, !.kids = Append(Front(@), lost)]

\* The script is as it should be; the shell tool is called with it.
HandOver ==
  /\ called.kind = "none" /\ steps > 0
  /\ called' = Call("script", NoCall)
  /\ UNCHANGED <<script, runs, files, dirs, steps>>

\* Another tool is called.
CallTool(call) ==
  /\ called.kind = "none" /\ steps = 0
  /\ called' = Call("tool", call)
  /\ UNCHANGED <<script, runs, files, dirs, steps>>

Next ==
  \/ \E c \in Simples : Begin(c)
  \/ \E c \in Simples : Then(c) \/ Background(c) \/ Pipe(c)
  \/ \E c \in Simples, r \in Redirects : PipeOfList(r, c)
  \/ Subshell \/ Group \/ Condition \/ Substitute
  \/ \E r \in Redirects : RedirectTo(r)
  \/ \E wrapper \in Wrappers : Wrap(wrapper)
  \/ \E found \in BOOLEAN : Misread(found)
  \/ HandOver
  \/ \E call \in ToolCalls : CallTool(call)

Spec == Init /\ [][Next]_vars

-----------------------------------------------------------------------------
(* The gates' verdict on the script as it stands. *)

Program == BashProgram(Grown(Node("program", <<script>>)), "")
PolicyOf(rules) == [rules |-> rules, session |-> <<>>, yolo |-> FALSE]
ShellCall(program) ==
  [tool |-> Bash, file |-> "", shell |-> TRUE, program |-> program, mcp |-> <<>>]
PassesUnasked(program, policy) ==
  \A g \in ToSet(Gates(ShellCall(program), policy, ListedSkills)) : PassesAlone(g, policy.yolo)

\* A command as it is typed and with the files it names spelled in full.
SpelledFrom(r) ==
  LET Full(w) == LET path == Located(PathOf(w), Known(r.dir))
                 IN  IF PathOf(w).root # "none" /\ (PathOf(w).named \/ path \in Existing)
                     THEN Slashed(path) ELSE WordText(w)
      rest == [i \in 1..Len(r.words)-1 |-> i + 1]
  IN  {Spaced(r.words),
       FoldLeft(LAMBDA acc, i : acc \o <<" ">> \o Full(r.words[i]), WordText(r.words[1]), rest)}
ValuesAt(path) ==
  {Slashed(path), Slashed(Canonical(path))}
    \cup IF IsWithin(path, Cwd) /\ path # Cwd THEN {Relative(Below(Cwd, path))} ELSE {}

CommandsAllowed(policy) ==
  \A r \in runs : Judge(policy, Bash, SpelledFrom(r)).state = Allow
FilesAllowed(policy) ==
  \A f \in {x \in files : x.named} :
    LET On(family) == Judge(policy, SurfaceForEffect(family, f.effect), ValuesAt(f.path))
    IN  /\ On(<<"path">>).state = Allow \/ On(<<"path">>).pattern = None
        /\ IsOutside(Canonical(f.path)) => On(<<"external_directory">>).state = Allow
UnaskedOnlyIf(Allowed(_)) ==
  LET program == Program
  IN  \A rules \in Policies :
        PassesUnasked(program, PolicyOf(rules)) => Allowed(PolicyOf(rules))

\* If nobody is asked about a script that is handed over, the rules for commands
\* allow every command the shell runs, wherever it stands: behind a wrapper, in
\* a substitution, in a subshell, or where the parser lost its way.
NoCommandSlips == [][called'.kind = "script" => UnaskedOnlyIf(CommandsAllowed)]_vars

\* If nobody is asked, every file the script touches may be touched that way:
\* no rule for its path refuses it or asks, and outside the session's directory
\* a rule allows it.  The path is the one the shell ends up with, after every
\* "cd" in force where the file is named.
NoFileSlips == [][called'.kind = "script" => UnaskedOnlyIf(FilesAllowed)]_vars

\* The policy after every question the gates raise is answered "for this session".
Answered(call, gates, policy) ==
  LET Asks(g) == g.check.state = Ask
      asking == SelectSeq(gates, Asks)
  IN  [policy EXCEPT !.session =
         FlattenSeq([i \in DOMAIN asking |-> SessionRulesOf(GrantsOf(call, asking[i]), "proven")])]
Settled(call, policy) ==
  \A gates \in {Gates(call, policy, ListedSkills)} :
  \A after \in {Answered(call, gates, policy)} :
  \A g \in ToSet(gates) : g.check.state = Ask =>
    /\ \A o \in ToSet(g.on) : Judge(after, o.surface, o.access.values).state = Allow
    /\ (g.on = <<>> /\ g.surface # Skill /\ Len(call.program.units) <= 1)
         => ToolCheck(call, after).state = Allow

\* Approving for the session works: what a call was asked about, each file with
\* the use it makes of it and a command that stands alone, is not asked about
\* again, however the file was spelled and whatever wraps the command.
ApprovedIsNotAskedAgain ==
  [][called' # called =>
       \A call \in {IF called'.kind = "script" THEN ShellCall(Program) ELSE called'.call} :
       \A rules \in Policies : Settled(call, PolicyOf(rules))]_vars

\* The source calls its probe an approximation: it takes patterns for values.  A
\* pattern's own text stands for all it matches unless a refusal behind it has a
\* "?", which may match the text's "*" and no value, or the pattern ends in a blank
\* and a star, which also match nothing at all.
ProbeIsExact(surface, rules) ==
  \A i \in DOMAIN rules : WildcardMatch(rules[i].surface, surface) =>
    IF rules[i].action = Deny THEN "?" \notin ToSet(rules[i].pattern)
                              ELSE ~IsSuffix(<<" ", "*">>, rules[i].pattern)
HiddenForCertain(tool) ==
  {rules \in Exposures : /\ IsToolFullyDenied(tool, rules)
                         /\ IsMcpTool(tool) \/ ProbeIsExact(tool, rules)}

\* A tool other than the shell that is hidden from the agent would have been refused
\* whatever it was called with, by each configuration whose patterns the probe reads
\* exactly.  By the others a hidden tool may have had calls that pass: "*" denied,
\* "srv_*" allowed and "srv_?" denied hide "mcp", and its call of "srv_t1" passes.
HiddenToolsAreRefused ==
  [][called'.kind = "tool" =>
       \A rules \in HiddenForCertain(called'.call.tool) :
         \E g \in ToSet(Gates(called'.call, PolicyOf(rules), ListedSkills)) : g.check.state = Deny]_vars
=============================================================================
