------------------------------ MODULE BashUnits ------------------------------
(* The commands a shell program runs, one by one, and the verdict their rules *)
(* come to.                                                                   *)
EXTENDS BashPaths, PermissionPolicy

\* A unit is a text its rules judge; "salvaged" ones come from a second parse.
Unit(text, scope) ==
  [text |-> text, spellings |-> {}, wrapper |-> "none", exempt |-> "none", inner |-> <<>>,
   unresolved |-> scope.unresolved, salvaged |-> scope.salvaged]

Scope(salvaged) == [writes |-> FALSE, unresolved |-> salvaged, salvaged |-> salvaged]
Redirecting(node, scope) ==
  [scope EXCEPT !.writes = @ \/ \E r \in ToSet(node.redirs) : RedirectMayWriteFile(r)]

\* The command spelled with the paths of its arguments, and with the home that
\* its first word starts with.
Spellings(node) ==
  LET Join(acc, t) == IF acc = <<>> THEN t ELSE acc \o <<" ">> \o t
      rest == [i \in 1..Len(node.words)-1 |-> i + 1]
      AtHome == PathOf(node.words[1]).root = "home"
      With(first, Of(_)) == FoldLeft(LAMBDA acc, i : Join(acc, Of(i)), first, rest)
  IN  {With(WordText(node.words[1]), LAMBDA i : AbsoluteSpelling(node, i))}
        \cup (IF AtHome THEN {With(Literal(PathOf(node.words[1])),
                                   LAMBDA i : WordText(node.words[i]))} ELSE {})

CommandUnit(node, scope) ==
  IF node.words = <<>> THEN Unit(Text(node), scope)
  ELSE [Unit(Spaced(node.words), scope) EXCEPT
          !.spellings = IF scope.salvaged THEN {} ELSE Spellings(node),
          !.wrapper = ClassifyWrapperWords(node.words),
          !.exempt = IF IsTimed(node) THEN "execution-modifier"
                     ELSE FloorExemption(node.words, Redirecting(node, scope).writes),
          !.inner = ExecutedUnit(node.words)]

\* A compound statement is judged as a whole and then command by command, so a
\* rule on either text counts.
RECURSIVE UnitsOf(_, _)
UnitsOf(node, inherited) ==
  LET scope == IF node.err /\ node.t \notin {"program", "list", "pipeline", "substitution"}
               THEN [inherited EXCEPT !.unresolved = TRUE] ELSE inherited
      Each(nodes, s) == FlattenSeq([i \in DOMAIN nodes |-> UnitsOf(nodes[i], s)])
      inside == [Scope(FALSE) EXCEPT !.salvaged = scope.salvaged]
      hosted == Each(node.hosted, inside)
      whole == <<Unit(Text(node), scope)>>
  IN  CASE IsTimed(node) ->
             <<CommandUnit(node, scope)>> \o hosted
               \o Each(node.kids[1].kids, Redirecting(node, scope))
        [] node.t = "command" -> <<CommandUnit(node, scope)>> \o hosted
        [] node.t = "redirected" -> Each(node.kids, Redirecting(node, scope)) \o hosted
        [] node.t \in {"program", "list", "pipeline", "substitution"} -> Each(node.kids, scope)
        [] node.t = "subshell" -> whole \o Each(node.kids, scope)
        [] node.t \in Compound -> whole \o Each(node.kids, scope) \o hosted
        [] node.t = "ERROR" -> whole
        [] OTHER -> whole \o hosted

\* A parsed shell command, as the gates read it.
BashProgram(root, workdir) ==
  LET accesses == BashAccesses(root, workdir)
      salvaged == SalvagedRoots(root)
  IN  [text |-> Text(root),
       units |-> UnitsOf(accesses.tree, Scope(FALSE))
                   \o FlattenSeq([i \in DOMAIN salvaged |-> UnitsOf(salvaged[i], Scope(TRUE))]),
       candidates |-> accesses.candidates,
       externals |-> accesses.externals,
       verbatim |-> ~root.err]
NoProgram == [text |-> <<>>, units |-> <<>>, candidates |-> <<>>, externals |-> <<>>,
              verbatim |-> FALSE]

-----------------------------------------------------------------------------
(* The verdict of a policy on a program.                                      *)

Judge(policy, surface, values) ==
  Resolve(policy.rules, policy.session, policy.yolo, surface, values)

FloorToAsk(verdict, command) ==
  [verdict EXCEPT !.state = Ask, !.pattern = <<"<floor>">>, !.floored = TRUE,
                  !.command = command]

ResolveWrapperUnit(unit, base, policy) ==
  IF unit.exempt = "no-command" THEN base
  ELSE IF unit.exempt = "none" \/ unit.inner = <<>> THEN FloorToAsk(base, unit.text)
  ELSE [Judge(policy, Bash, {Spaced(unit.inner)}) EXCEPT !.command = base.command]

ResolveUnit(unit, whole, policy) ==
  LET Granted(v) == v.source = "session"
      base == [Judge(policy, Bash, {unit.text} \cup unit.spellings) EXCEPT !.command = unit.text]
      judged == IF unit.wrapper # "none" /\ base.state = Allow /\ ~Granted(base)
                THEN ResolveWrapperUnit(unit, base, policy) ELSE base
  IN  IF unit.unresolved /\ judged.state = Allow /\ ~Granted(judged)
      THEN FloorToAsk(judged, whole) ELSE judged

ResolveBash(program, policy) ==
  LET whole == [Judge(policy, Bash, {program.text}) EXCEPT !.command = program.text]
      results == [i \in DOMAIN program.units |->
                    ResolveUnit(program.units[i], program.text, policy)]
      winner == MostRestrictive(results)
      Asks(r) == r.state = Ask
      asking == SelectSeq(results, Asks)
  IN  IF program.text = <<>> THEN whole
      ELSE IF (\A u \in ToSet(program.units) : u.salvaged) /\ whole.state = Deny THEN whole
      ELSE IF program.units = <<>>
      THEN [Verdict(Ask, <<"<unparsed>">>, "rule", "builtin") EXCEPT !.floored = TRUE,
                                                          !.command = program.text]
      ELSE IF winner.state # Ask THEN winner
      ELSE [winner EXCEPT !.floored = \E r \in ToSet(results) : r.floored,
                          !.asking = [i \in DOMAIN asking |->
                                        [command |-> asking[i].command,
                                         floored |-> asking[i].floored]]]
=============================================================================
