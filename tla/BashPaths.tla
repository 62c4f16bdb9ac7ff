------------------------------ MODULE BashPaths ------------------------------
(* The files a shell command may touch: which words of a command are paths,   *)
(* what the command is proven to do with each, which of them lie outside the  *)
(* session's directory, and which are judged by the rules for paths.          *)
EXTENDS BashTree

CONSTANTS Links,        \* symbolic links: path -> the path it stands for
          Existing,     \* the paths that exist, directories among them
          Directories,
          SafePaths     \* devices that are never a file

\* An access: the texts its rules are matched against, its path as written and
\* the one links lead to; both are <<>> when it cannot be located.
Slashed(segs) == IF segs = <<>> THEN <<"/">>
                 ELSE FlattenSeq([i \in DOMAIN segs |-> <<"/", segs[i]>>])
Relative(segs) == IF segs = <<>> THEN <<>> ELSE Tail(Slashed(segs))
IsWithin(segs, dir) == IsPrefix(dir, segs)
Below(dir, segs) == SubSeq(segs, Len(dir) + 1, Len(segs))

Canonical(segs) ==
  LET through == {l \in DOMAIN Links : IsWithin(segs, l)}
  IN  IF through = {} THEN segs
      ELSE LET l == CHOOSE x \in through : TRUE IN Links[l] \o Below(l, segs)

Literal(spelling) ==
  CASE spelling.root = "abs" -> Slashed(spelling.segs)
    [] spelling.root = "home" -> Slashed(Home \o spelling.segs)
    [] OTHER -> Relative(spelling.segs)

NoPath == [values |-> {}, path |-> <<>>, boundary |-> <<>>, located |-> FALSE]
AccessPath(spelling, base) ==
  LET path == Located(spelling, base)
      inside == IF IsWithin(path, Cwd) /\ path # Cwd THEN {Relative(Below(Cwd, path))} ELSE {}
  IN  [values |-> {Slashed(path), Literal(spelling), Slashed(Canonical(path))} \cup inside,
       path |-> path, boundary |-> Canonical(path), located |-> TRUE]
LiteralPath(spelling) == [NoPath EXCEPT !.values = {Literal(spelling)}]

IsOutside(boundary) == boundary \notin SafePaths /\ ~IsWithin(boundary, Canonical(Cwd))
NamesNothingBelowRoot(access) ==
  /\ access.located /\ access.boundary # <<>>
  /\ \A n \in DOMAIN access.boundary : SubSeq(access.boundary, 1, n) \notin Existing

-----------------------------------------------------------------------------
(* Which words of a command are its operands. *)

\* A token is a word read as a path; "at" is its place among the words of its
\* command, 0 for a part of one, and "role" how far its position is proof.
Token(word, stamp, base, at) ==
  [word |-> word, effect |-> stamp.effect, role |-> stamp.role, base |-> base, at |-> at]
Stamped(effect, role) == [effect |-> effect, role |-> role]

WrapperCommandNames == {"eval"} \cup ShellNames \cup IndirectionNames

OperandStamp(words) ==
  LET args == Tail(words)
      attribution == IF Base(words[1]) \in WrapperCommandNames
                     THEN Attribution("effect", ProveCommandEffect(words[1], args))
                     ELSE AttributeCommandOperands(words[1], args)
  IN  Stamped(attribution.effect, IF attribution.kind = "inert" THEN "inert" ELSE "operand")

\* Commands whose leading operands are a pattern or a script, not a file.
\* What each option does with its value: a script, a file that holds one, a
\* plain value, an optional suffix, or a number of words that is not known.
NoFlags == [script |-> {}, file |-> {}, value |-> {}, suffix |-> {}, unknown |-> {},
            positionals |-> 1]
ScriptFlags(flags) == [NoFlags EXCEPT !.script = flags, !.positionals = 0]
GrepFlags == [NoFlags EXCEPT !.script = {"-e", "--regexp"}, !.file = {"-f", "--file"},
                             !.value = {"-A", "--after-context", "-B", "--before-context", "-C",
                                        "-m", "--max-count"}]
AwkFlags == [NoFlags EXCEPT !.script = {"-e"}, !.file = {"-f"}, !.value = {"-F", "-v"},
               !.unknown = {"--source", "--file", "--field-separator", "--assign"}]
PatternCommands ==
  [sed |-> [NoFlags EXCEPT !.script = {"-e", "--expression"}, !.file = {"-f", "--file"},
                           !.suffix = {"-i"}],
   awk |-> AwkFlags, nawk |-> AwkFlags,
   gawk |-> [AwkFlags EXCEPT !.script = @ \cup {"--source"}, !.file = @ \cup {"--file"},
               !.value = @ \cup {"--field-separator", "--assign"}, !.unknown = {}],
   grep |-> GrepFlags, egrep |-> GrepFlags, fgrep |-> GrepFlags,
   rg |-> [GrepFlags EXCEPT !.value = @ \cup {"--context", "-g", "--glob", "-t", "--type", "-T",
             "--type-not", "-j", "--threads", "-M", "--max-columns", "-r", "--replace", "-E",
             "--encoding"}],
   sd |-> [NoFlags EXCEPT !.value = {"-f", "--flags", "-n", "--max-replacements"},
                          !.positionals = 2],
   node |-> ScriptFlags({"-e", "--eval", "-p", "--print"}),
   bun |-> ScriptFlags({"-e", "--eval", "-p", "--print"}),
   python |-> ScriptFlags({"-c"}), python3 |-> ScriptFlags({"-c"}),
   perl |-> ScriptFlags({"-e", "-E"}), ruby |-> ScriptFlags({"-e"})]

FlagRole(w, config) ==
  LET Of(names) ==
        CASE names \cap config.script # {} -> "script"
          [] names \cap config.file # {} -> "file"
          [] names \cap config.value # {} -> "value"
          [] names \cap config.suffix # {} -> "suffix"
          [] names \cap config.unknown # {} -> "unknown"
          [] OTHER -> "regular"
  IN  IF Shape(w).attached THEN Of(Shape(w).heads) ELSE Of({w})
SuppliesScript(role) == role \in {"script", "file", "unknown"}

EmbeddedValue(w, stamp, base) ==
  IF Shape(w).value # "" THEN <<Token(Shape(w).value, stamp, base, 0)>> ELSE <<>>

\* A word that is one expansion and nothing else is not an argument to be read.
IsArgument(w) == Shape(w).form # "expansion"

PatternCommandTokens(words, config, stamp, base) ==
  LET Operand(s, i) == Append(s.tokens, Token(words[i], stamp, base, i))
      Flag(s, w) ==
        LET role == FlagRole(w, config)
        IN  IF w = "--" THEN [s EXCEPT !.ended = TRUE]
            ELSE IF role = "regular"
            THEN [s EXCEPT !.tokens = @ \o EmbeddedValue(w, stamp, base)]
            ELSE IF ~Shape(w).attached
            THEN [s EXCEPT !.pending = role, !.explicit = @ \/ SuppliesScript(role)]
            ELSE [s EXCEPT !.explicit = @ \/ SuppliesScript(role),
                           !.tokens = IF role = "file" THEN @ \o EmbeddedValue(w, stamp, base)
                                      ELSE @]
      Positional(s, i) ==
        IF ~s.explicit /\ s.seen < config.positionals
        THEN [s EXCEPT !.seen = @ + 1]
        ELSE IF IsArgument(words[i]) THEN [s EXCEPT !.tokens = Operand(s, i)] ELSE s
      Step(s, i) ==
        LET w == words[i]
        IN  IF s.pending = "file" /\ IsArgument(w)
            THEN [s EXCEPT !.pending = "", !.tokens = Operand(s, i)]
            ELSE IF \/ s.pending \in {"script", "value", "file"}
                    \/ s.pending = "suffix" /\ w = "''"
                    \/ s.pending # "" /\ ~IsArgument(w)
            THEN [s EXCEPT !.pending = ""]
            ELSE LET r == [s EXCEPT !.pending = ""]
                 IN  IF ~r.ended /\ IsOption(w) THEN Flag(r, w) ELSE Positional(r, i)
  IN  FoldLeft(Step, [tokens |-> <<>>, explicit |-> FALSE, seen |-> 0, pending |-> "",
                      ended |-> FALSE], [i \in 1..Len(words)-1 |-> i + 1]).tokens

CommandTokens(node) ==
  LET words == node.words
      stamp == OperandStamp(words)
      name == Base(words[1])
      Whole(i) == IF IsArgument(words[i]) THEN <<Token(words[i], stamp, node.base, i)>> ELSE <<>>
      Part(i) == EmbeddedValue(words[i], stamp, node.base)
      Over(Of(_)) == FlattenSeq([i \in 1..Len(words)-1 |-> Of(i + 1)])
  IN  IF words = <<>> THEN <<>>
      ELSE IF name \in DOMAIN PatternCommands
      THEN PatternCommandTokens(words, PatternCommands[name], stamp, node.base)
      ELSE Over(Whole) \o Over(Part)

\* The operator proves a redirect's target, unless the shell computes it.
RedirectTokens(r, base) ==
  LET effect == RedirectEffect(r)
  IN  IF effect = NoFile THEN <<>>
      ELSE <<Token(r.dest, Stamped(effect, IF effect.source = "syntax" /\ ~Computed(r.dest)
                                           THEN "destination" ELSE "operand"), base, -1)>>

RECURSIVE TokensOf(_)
TokensOf(node) ==
  LET Of(nodes) == FlattenSeq([i \in DOMAIN nodes |-> TokensOf(nodes[i])])
      Plainly(i) == Token(node.words[i], Stamped(Unproven, "operand"), node.base, -1)
      own == CASE node.t = "command" -> CommandTokens(node)
               [] node.t \in {"for", "case"} -> [i \in DOMAIN node.words |-> Plainly(i)]
               [] OTHER -> <<>>
  IN  own \o Of(node.kids) \o Of(node.hosted)
        \o FlattenSeq([i \in DOMAIN node.redirs |-> RedirectTokens(node.redirs[i], node.base)])

-----------------------------------------------------------------------------
(* From tokens to accesses. *)

IsPathShaped(t) ==
  t.role = "destination" \/ PathOf(t.word).root \in {"abs", "home"}
    \/ (PathOf(t.word).root = "rel" /\ ".." \in ToSet(PathOf(t.word).segs))
IsRuleShaped(t) == t.role = "destination" \/ (PathOf(t.word).root # "none" /\ PathOf(t.word).named)

\* A word that only looks like a name counts when an entry of that name exists.
Probed(t) ==
  /\ PathOf(t.word).root # "none" /\ t.base.known
  /\ Located(PathOf(t.word), t.base) \in Existing
IsAdrift(t) == ~t.base.known /\ PathOf(t.word).root \notin {"abs", "home"}

Merged(known, found, same) ==
  LET at == SelectInSeq(known, LAMBDA k : k[same] = found[same])
  IN  IF at = 0 THEN Append(known, found)
      ELSE [known EXCEPT ![at] =
              [@ EXCEPT !.effect = MergeTokenEffects(@, found.effect),
                        !.unlocated = @ \/ found.unlocated]]

\* The accesses outside the session's directory: [path, key, effect, unlocated].
External(path, key, effect, unlocated) ==
  [path |-> path, key |-> key, effect |-> effect, unlocated |-> unlocated]

ExternalPaths(tokens, salvaged) ==
  LET Step(found, i) ==
        LET t == tokens[i]
            shaped == IsPathShaped(t)
            adrift == shaped /\ IsAdrift(t)
            access == AccessPath(PathOf(t.word), IF adrift THEN Known(Cwd) ELSE t.base)
            outside == IF adrift THEN access.boundary \notin SafePaths
                                 ELSE IsOutside(access.boundary)
            verbatim == /\ PathOf(t.word).root = "abs" /\ PathOf(t.word).verbatim
                        /\ t.at # 0 /\ i <= Len(tokens) - salvaged
        IN  IF t.role = "inert" \/ ~(shaped \/ Probed(t)) \/ ~outside THEN found
            ELSE Merged(found, External(access, access.boundary, t.effect, ~verbatim \/ adrift),
                        "key")
  IN  FoldLeft(Step, <<>>, [i \in DOMAIN tokens |-> i])

\* The accesses the rules for paths judge.
CandidatePath(t) == IF IsAdrift(t) THEN LiteralPath(PathOf(t.word))
                                   ELSE AccessPath(PathOf(t.word), t.base)
IsCandidate(t) == IsRuleShaped(t) \/ Probed(t)

RuleCandidates(tokens) ==
  LET Step(found, t) ==
        IF t.role = "inert" \/ ~IsCandidate(t) THEN found
        ELSE Merged(found, External(CandidatePath(t), CandidatePath(t).values, t.effect, FALSE),
                    "key")
  IN  FoldLeft(Step, <<>>, tokens)

\* (The spelling is read against the session's directory, whatever "cd" did.)
AbsoluteSpellingAtCwd(node, i) ==
  IF Computed(node.words[i]) \/ ~PathOf(node.words[i]).named THEN WordText(node.words[i])
  ELSE Slashed(Located(PathOf(node.words[i]), Known(Cwd)))

\* The absolute spelling of the i-th word of a command, for the rules on text.
AbsoluteSpelling(node, i) ==
  LET whole == SelectSeq(CommandTokens(node), LAMBDA t : t.at = i)
  IN  IF whole = <<>> \/ Computed(node.words[i]) \/ ~IsCandidate(whole[1]) \/ IsAdrift(whole[1])
      THEN WordText(node.words[i])
      ELSE Slashed(CandidatePath(whole[1]).path)

\* Spellings of a home that the command itself moves say nothing.
RebindsHome(root) ==
  \E n \in Everywhere(root) :
    \/ "HOME" \in n.sets
    \/ n.t = "command" /\ n.words # <<>> /\ n.words[1] \in {"eval", "source", ".", "trap"}

BashAccesses(root, workdir) ==
  LET walked == Walk(root, InitialBase(workdir)).node
      salvaged == SalvagedRoots(root)
      again == FlattenSeq([i \in DOMAIN salvaged |-> TokensOf(Walk(salvaged[i], Unknown).node)])
      rebound == \E r \in {root} \cup ToSet(salvaged) : RebindsHome(r)
      Kept(t) == ~(rebound /\ PathOf(t.word).root = "home")
      main == SelectSeq(TokensOf(walked), Kept)
      extra == SelectSeq(again, Kept)
      found == ExternalPaths(main \o extra, Len(extra))
      start == AccessPath(PathOf(workdir), Known(Cwd))
      known == \E i \in DOMAIN found : found[i].key = start.boundary
  IN  [tree |-> walked,
       candidates |-> RuleCandidates(main \o extra),
       externals |-> IF workdir = "" \/ ~IsOutside(start.boundary) \/ known THEN found
                     ELSE <<External(start, start.boundary, Unproven, FALSE)>> \o found]
=============================================================================
