--------------------------- MODULE GateDescriptors ---------------------------
(* The six gates of a tool call.  Each reads the call against the policy as   *)
(* it stands and gives at most one verdict to act on: on the skill a file     *)
(* belongs to, on the path of a tool, on its place outside the session's      *)
(* directory, on the same two questions for the files of a shell command, and *)
(* on the tool itself.                                                        *)
(*                                                                            *)
(* A call is [tool, file, shell, program, mcp]: "file" is the word that names *)
(* its path or "", "program" the parsed shell command or NoProgram.  A policy *)
(* is [rules, session, yolo].                                                 *)
EXTENDS BashUnits

CONSTANTS InfraDirs,        \* directories that hold pi itself and its packages
          InfraExcluded     \* directories among them that are not readable freely

\* What a gate found: the verdict, the accesses it is about with the surface of
\* each, and whether a link may allow it although it is about paths.
Gate(surface, check, on, licensed) ==
  <<[surface |-> surface, check |-> check, on |-> on, licensed |-> licensed]>>
NoGate == <<>>
Single(surface, access) == <<[surface |-> surface, access |-> access]>>

-----------------------------------------------------------------------------
(* What a grant for a path covers: a directory with its contents, or all that *)
(* stands beside a file.                                                      *)

TextOf(access) == IF access.located THEN Slashed(access.path)
                                    ELSE CHOOSE v \in access.values : TRUE
ApprovalPatterns(access) ==
  LET text == TextOf(access)
      last == SelectLastInSeq(text, LAMBDA a : a = "/")
  IN  IF access.located /\ access.boundary \in Directories
      THEN <<text, IF Last(text) = "/" THEN Append(text, "*") ELSE text \o <<"/", "*">>>>
      ELSE IF last = 0 THEN <<<<".", "/", "*">>>>
      ELSE <<Append(SubSeq(text, 1, last), "*")>>

GrantsOn(surface, access) ==
  LET patterns == ApprovalPatterns(access)
  IN  [i \in DOMAIN patterns |-> [surface |-> surface, pattern |-> patterns[i]]]

FileOf(call) == AccessPath(PathOf(call.file), Known(Cwd))

-----------------------------------------------------------------------------
(* The gates of a tool that names a path. *)

\* A skill's own file, or the innermost skill directory a file lies in.
SkillPathMatch(path, skills) ==
  LET exact == {s \in skills : s.location = path}
      around == {s \in skills : IsWithin(path, Front(s.location))}
      innermost == {s \in around : \A t \in around : Len(t.location) <= Len(s.location)}
  IN  IF exact # {} THEN exact ELSE innermost

SkillReadGate(call, skills) ==
  LET match == SkillPathMatch(FileOf(call).path, skills)
      skill == CHOOSE s \in match : TRUE
  IN  IF call.tool # <<"read">> \/ call.file = "" \/ match = {} THEN NoGate
      ELSE Gate(Skill, Verdict(skill.state, None, "rule", "builtin"), <<>>, FALSE)

PathGate(call, policy) ==
  LET surface == SurfaceForEffect(<<"path">>, EffectOfTool(call.tool))
      check == Judge(policy, surface, FileOf(call).values)
  IN  IF call.file = "" \/ check.state = Allow \/ check.pattern = None THEN NoGate
      ELSE Gate(surface, check, Single(surface, FileOf(call)), FALSE)

IsInfrastructureRead(call) ==
  /\ call.tool \in {<<"read">>, <<"find">>, <<"grep">>, <<"ls">>}
  /\ \E d \in InfraDirs : IsWithin(FileOf(call).boundary, d)
  /\ \A d \in InfraExcluded : ~IsWithin(FileOf(call).boundary, d)

\* A deny that names more than "everything" holds for pi's own files too.
IsTargetedDeny(check) ==
  check.state = Deny /\ check.pattern # None /\ \E a \in ToSet(check.pattern) : a # "*"

ExternalDirectoryGate(call, policy) ==
  LET surface == SurfaceForEffect(<<"external_directory">>, EffectOfTool(call.tool))
      check == Judge(policy, surface, FileOf(call).values)
  IN  IF \/ call.file = "" \/ ~IsOutside(FileOf(call).boundary)
         \/ IsInfrastructureRead(call) /\ ~IsTargetedDeny(check)
      THEN NoGate
      ELSE Gate(surface, check, Single(surface, FileOf(call)), FALSE)

-----------------------------------------------------------------------------
(* The gates of a shell command's files. *)

Judged(entries, family, policy) ==
  [i \in DOMAIN entries |->
     LET surface == SurfaceForEffect(family, entries[i].effect.effect)
     IN  [entry |-> entries[i], surface |-> surface,
          check |-> Judge(policy, surface, entries[i].path.values)]]
Worst(judged) ==
  judged[CHOOSE i \in DOMAIN judged :
           /\ \A j \in DOMAIN judged :
                Strictness[judged[j].check.state] <= Strictness[judged[i].check.state]
           /\ \A j \in 1..i-1 :
                Strictness[judged[j].check.state] < Strictness[judged[i].check.state]]

\* Paths that name nothing below the root can be left to a link.
NamesNothingOnDisk(judged) ==
  \A j \in ToSet(judged) : /\ ~j.entry.unlocated
                           /\ j.entry.effect.effect # "write"
                           /\ NamesNothingBelowRoot(j.entry.path)

BashExternalGate(program, policy) ==
  LET Uncovered(j) == j.check.state # Allow
      uncovered == SelectSeq(Judged(program.externals, <<"external_directory">>, policy), Uncovered)
      worst == Worst(uncovered)
  IN  IF uncovered = <<>> THEN NoGate
      ELSE Gate(worst.surface, worst.check,
                [i \in DOMAIN uncovered |->
                   [surface |-> uncovered[i].surface, access |-> uncovered[i].entry.path]],
                program.verbatim /\ NamesNothingOnDisk(uncovered))

\* The first deny decides; the grant covers only the path that is asked about.
BashPathGate(program, policy) ==
  LET judged == Judged(program.candidates, <<"path">>, policy)
      Counts(j) == j.check.pattern # None \/ j.check.source = "session"
      Asked(j) == Counts(j) /\ j.check.state # Allow
      uncovered == SelectSeq(judged, Asked)
      worst == Worst(uncovered)
  IN  IF uncovered = <<>> THEN NoGate
      ELSE Gate(worst.surface, worst.check, Single(worst.surface, worst.entry.path), FALSE)

-----------------------------------------------------------------------------
(* The gate of the tool itself. *)

GateSurface(call) == IF call.shell THEN Bash ELSE SurfaceOfTool(call.tool)

ToolCheck(call, policy) ==
  IF call.shell
  THEN IF call.program = NoProgram
       THEN [Judge(policy, Bash, {<<>>}) EXCEPT !.command = <<>>]
       ELSE ResolveBash(call.program, policy)
  ELSE IF call.file # "" /\ call.tool \in PathTools
  THEN Judge(policy, call.tool, FileOf(call).values)
  ELSE Judge(policy, GateSurface(call), ValuesOfTool(call.tool, call.mcp))

\* The pattern a tool's own answer would grant.
SuggestMcpPattern(target) ==
  LET Upto(a) == SelectInSeq(target, LAMBDA x : x = a)
  IN  IF Upto(":") > 1 THEN Append(SubSeq(target, 1, Upto(":")), "*")
      ELSE IF Upto("_") > 1 THEN Append(SubSeq(target, 1, Upto("_")), "*") ELSE Star

\* The words of a command's text, told apart by its blanks.
WordsOf(text) ==
  LET Name(atoms) == IF \E w \in DOMAIN Lex : WordText(w) = atoms
                     THEN CHOOSE w \in DOMAIN Lex : WordText(w) = atoms ELSE atoms[1]
      Step(s, a) == IF a = " " THEN [words |-> Append(s.words, Name(s.atoms)), atoms |-> <<>>]
                               ELSE [s EXCEPT !.atoms = Append(@, a)]
      end == FoldLeft(Step, [words |-> <<>>, atoms |-> <<>>], Append(text, " "))
  IN  IF text = <<>> THEN <<>> ELSE end.words

ToolGate(call, policy) ==
  LET ofPath == call.file # "" /\ call.tool \in PathTools /\ ~call.shell
  IN  Gate(GateSurface(call), ToolCheck(call, policy),
           IF ofPath THEN Single(call.tool, FileOf(call)) ELSE <<>>, FALSE)

\* What an answer "for this session" grants: every path of the gate, or what
\* the tool's value suggests.  A skill's file is granted by nothing.
GrantsOf(call, gate) ==
  LET One(pattern) == <<[surface |-> gate.surface, pattern |-> pattern]>>
      Decided(v) == gate.check.pattern = None \/ WildcardMatch(gate.check.pattern, v)
      target == CHOOSE v \in ValuesOfTool(call.tool, call.mcp) : Decided(v)
  IN  CASE gate.on # <<>> ->
             FlattenSeq([i \in DOMAIN gate.on |-> GrantsOn(gate.on[i].surface, gate.on[i].access)])
        [] gate.surface = Skill -> <<>>
        [] call.shell -> One(SuggestBashPattern(WordsOf(gate.check.command)))
        [] IsMcpTool(call.tool) -> One(call.tool)
        [] call.tool = Mcp -> One(SuggestMcpPattern(target))
        [] OTHER -> One(Star)

-----------------------------------------------------------------------------
(* All of them, in the order they are produced in.                            *)

Gates(call, policy, skills) ==
  SkillReadGate(call, skills) \o PathGate(call, policy) \o ExternalDirectoryGate(call, policy)
    \o BashExternalGate(call.program, policy) \o BashPathGate(call.program, policy)
    \o ToolGate(call, policy)

\* What the gate acts on without asking anybody.
PassesAlone(gate, yolo) ==
  \/ gate.check.state = Allow
  \/ gate.check.state = Ask /\ yolo
=============================================================================
