---------------------------- MODULE ShellMutations ----------------------------
(* pi-autoformat, shell-mutation-detector.ts and the mutation handlers: the   *)
(* files a tool call says it changed.  A word of a command is a string; the   *)
(* words that start with a dash are listed here.  A command is                *)
(* [opaque, words, prefixes]: whether it holds a pipe, a separator, a         *)
(* substitution, an input redirect or an open quote; its words; and the       *)
(* wrapper prefixes its text starts with.                                     *)
EXTENDS Sequences, SequencesExt

DashWords == {"-i", "-i.bak", "-e", "-f", "-v", "-n", "-p", "-a", "-m", "-c",
              "--append", "-r", "-t", "-E", "--", "-"}
InPlace == {"-i", "-i.bak"}

\* What a parser of arguments finds: the files, or that it cannot tell.
Bail == [ok |-> FALSE, files |-> <<>>]
Found(files) == [ok |-> TRUE, files |-> files]

(* tokenizeSimpleCommand(): an empty word is dropped, quoted or not, and the  *)
(* word after a redirect is its target.                                       *)
Tokenize(command) ==
  LET Token(t, w) ==
        CASE w = "" -> t
          [] w \in {">", ">>"} -> [t EXCEPT !.pending = TRUE]
          [] OTHER -> IF t.pending
                      THEN [t EXCEPT !.targets = Append(@, w), !.pending = FALSE]
                      ELSE [t EXCEPT !.argv = Append(@, w)]
  IN  FoldLeft(Token, [argv |-> <<>>, targets |-> <<>>, pending |-> FALSE],
               command.words)

(* The operands after the flags a parser allows; "--" ends the flags.         *)
Operands(argv, allowed) ==
  LET ended == SelectInSeq(argv, LAMBDA w : w = "--")
      head == IF ended = 0 THEN Tail(argv) ELSE SubSeq(argv, 2, ended - 1)
      rest == IF ended = 0 THEN <<>> ELSE SubSeq(argv, ended + 1, Len(argv))
  IN  IF ToSet(head) \cap DashWords \subseteq allowed
      THEN Found(SelectSeq(head, LAMBDA w : w \notin DashWords) \o rest) ELSE Bail

Destination(operands) ==
  IF operands.ok /\ Len(operands.files) = 2 THEN Found(<<operands.files[2]>>) ELSE Bail
AtLeastOne(operands) ==
  IF operands.ok /\ operands.files # <<>> THEN operands ELSE Bail

(* parseSed(): only with -i.  The first operand is taken for the script,      *)
(* although -e or -f has given one.                                           *)
SedFlags(argv) ==
  LET scan[i \in 2..Len(argv) + 2] ==
        IF i > Len(argv) \/ argv[i] \notin DashWords \/ argv[i] = "-"
        THEN [ok |-> TRUE, inPlace |-> FALSE, at |-> i]
        ELSE CASE argv[i] = "--" -> [ok |-> TRUE, inPlace |-> FALSE, at |-> i + 1]
               [] argv[i] \in InPlace -> [scan[i + 1] EXCEPT !.inPlace = TRUE]
               [] argv[i] \in {"-e", "-f"} -> scan[i + 2]
               [] OTHER -> [ok |-> FALSE, inPlace |-> FALSE, at |-> i]
  IN  scan[2]
ParseSed(argv) ==
  LET flags == SedFlags(argv)
  IN  CASE ~flags.ok -> Bail
        [] flags.ok /\ ~flags.inPlace -> Found(<<>>)
        [] OTHER -> AtLeastOne(Found(SubSeq(argv, flags.at + 1, Len(argv))))

ParseMv(argv) == Destination(Operands(argv, {"-f", "-v", "-n"}))
ParseCp(argv) == Destination(Operands(argv, {"-f", "-v", "-p"}))
ParseTouch(argv) == AtLeastOne(Operands(argv, {"-a", "-m", "-c"}))
ParseTee(argv) == AtLeastOne(Operands(argv, {"-a", "--append"}))

ParseArguments(argv) ==
  CASE argv = <<>> -> Found(<<>>)
    [] OTHER ->
       CASE argv[1] = "sed" -> ParseSed(argv)
         [] argv[1] = "mv" -> ParseMv(argv)
         [] argv[1] = "cp" -> ParseCp(argv)
         [] argv[1] = "touch" -> ParseTouch(argv)
         [] argv[1] = "tee" -> ParseTee(argv)
         [] argv[1] \in {"echo", "printf", "cat"} -> Found(<<>>)
         [] OTHER -> Bail

(* parseKnownCommand(): a command it does not know writes nowhere, whatever   *)
(* it redirects.                                                              *)
ParseKnownCommand(command) ==
  LET tokens == Tokenize(command)
      found == ParseArguments(tokens.argv)
  IN  IF command.opaque \/ tokens.pending \/ ~found.ok THEN <<>>
      ELSE found.files \o tokens.targets

(* matchWrapper(): the first wrapper the command starts with is believed line *)
(* by line.                                                                   *)
MatchWrapper(command, lines, wrappers) ==
  IF \E i \in 1..Len(wrappers) : wrappers[i].prefix \in command.prefixes
  THEN SelectSeq(lines, LAMBDA l : l # "") ELSE <<>>

-----------------------------------------------------------------------------
(* A tool result is [tool, input, command, lines, error]: input gives the     *)
(* strings found under each field, command is a bash call's, lines is the     *)
(* output.                                                                    *)
At(input, field) == IF field \in DOMAIN input THEN input[field] ELSE <<>>

(* writeOrEditHandler(): "path" when it is one string.                        *)
WriteOrEdit(result) ==
  IF result.tool \in {"write", "edit"} THEN At(result.input, "path") ELSE <<>>

(* extractPathsFromInput() for the tool a user declared.                      *)
CustomTool(spec, result) ==
  IF result.tool = spec.toolName
  THEN FoldLeft(LAMBDA acc, field : acc \o At(result.input, field), <<>>, spec.fields)
  ELSE <<>>

(* createBashMutationHandler().  Snapshots are left out: production resolves  *)
(* no glob (defaultResolveGlobs), so SnapshotTracker.after() finds nothing.   *)
BashCommand(detection, result) ==
  IF result.tool # "bash" THEN <<>>
  ELSE (IF detection.argumentParsing THEN ParseKnownCommand(result.command) ELSE <<>>)
       \o MatchWrapper(result.command, result.lines, detection.wrappers)

(* Whether any handler looks at the call.                                     *)
Detects(config, result) ==
  \/ result.tool \in {"write", "edit"}
  \/ result.tool = "bash" /\ config.shellMutationDetection.enabled
  \/ \E i \in 1..Len(config.customMutationTools) :
       config.customMutationTools[i].toolName = result.tool

(* recordToolResult() over the handlers createDefaultAutoformatter() lists.   *)
Candidates(config, result) ==
  WriteOrEdit(result)
  \o FoldLeft(LAMBDA acc, spec : acc \o CustomTool(spec, result), <<>>,
              config.customMutationTools)
  \o IF config.shellMutationDetection.enabled
     THEN BashCommand(config.shellMutationDetection, result) ELSE <<>>
=============================================================================
