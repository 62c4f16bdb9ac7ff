---------------------------- MODULE BashWrappers ----------------------------
(* Commands that run another command: shells given a command line, sudo, env, *)
(* xargs, timeout and their like.  Which words are the wrapper and which the  *)
(* command inside, and when the inner command's own rules may decide.         *)
EXTENDS BashEffects

ShellNames == {"bash", "sh", "dash", "zsh", "ksh"}
IndirectionNames == {"sudo", "env", "xargs", "time", "nohup", "timeout", "nice", "parallel",
                     "rust-parallel", "rush", "doas", "setsid", "stdbuf", "watch", "flock"}
OpaqueCommandLine == {"watch", "parallel", "rush", "rust-parallel"}
LeadingOperand == {"timeout", "flock"}

ExecFlags(name) == CASE name = "find" -> {"-exec", "-execdir", "-ok", "-okdir"}
                     [] name = "fd" -> {"-x", "--exec", "-X", "--exec-batch"}
                     [] OTHER -> {}
ValueTaking(name) ==
  CASE name = "timeout" -> {"-s", "-k", "--signal", "--kill-after"}
    [] name = "nice" -> {"-n", "--adjustment"}
    [] name = "time" -> {"-o", "-f", "--output", "--format"}
    [] name = "stdbuf" -> {"-i", "-o", "-e", "--input", "--output", "--error"}
    [] name = "watch" -> {"-n", "--interval"}
    [] name = "flock" -> {"-w", "-E", "--timeout", "--conflict-exit-code"}
    [] OTHER -> {}
ModifierFlags(name) ==
  CASE name = "time" -> {"-p", "-l", "-h"}
    [] name = "timeout" -> {"-f", "--foreground", "-p", "--preserve-status", "-v", "--verbose"}
    [] OTHER -> {}
ModifierNames == {"time", "timeout", "nice", "stdbuf", "setsid"}
WritingOptions(name) == IF name = "time" THEN {"-o", "--output"} ELSE {}

\* Options the four getopt wrappers take; a letter or a name that is in none of
\* the sets, or in "refuse", stops the reading.
Getopt ==
  [sudo |-> [flag |-> {"A", "B", "b", "E", "H", "K", "k", "l", "N", "n", "P", "S", "V", "v"},
             value |-> {"C", "g", "p", "T", "U", "u"}, optional |-> {},
             longFlag |-> {"askpass", "background", "bell", "help", "list", "no-update",
               "non-interactive", "preserve-env", "preserve-groups", "remove-timestamp",
               "reset-timestamp", "set-home", "stdin", "validate", "version"},
             longValue |-> {"close-from", "command-timeout", "group", "other-user", "prompt",
               "user"}, longAttached |-> {},
             refuse |-> {"chdir", "chroot", "edit", "host", "login", "shell"},
             assigns |-> TRUE, loneDash |-> FALSE, bare |-> FALSE],
   env |-> [flag |-> {"0", "i", "v"}, value |-> {"u"}, optional |-> {},
            longFlag |-> {"debug", "help", "ignore-environment", "list-signal-handling", "null",
              "version", "block-signal", "default-signal", "ignore-signal"},
            longValue |-> {}, longAttached |-> {"unset"},
            refuse |-> {"argv0", "chdir", "env0-from", "split-string"},
            assigns |-> TRUE, loneDash |-> TRUE, bare |-> TRUE],
   xargs |-> [flag |-> {"0", "o", "p", "r", "t", "x"},
              value |-> {"a", "d", "E", "I", "L", "n", "P", "R", "S", "s"},
              optional |-> {"e", "i", "l"},
              longFlag |-> {"exit", "help", "interactive", "no-run-if-empty", "null", "open-tty",
                "show-limits", "verbose", "version", "eof", "max-lines", "replace"},
              longValue |-> {"arg-file", "delimiter", "max-args", "max-chars", "max-procs",
                "process-slot-var"}, longAttached |-> {}, refuse |-> {},
              assigns |-> FALSE, loneDash |-> FALSE, bare |-> FALSE],
   doas |-> [flag |-> {"L", "n"}, value |-> {"u"}, optional |-> {}, longFlag |-> {},
             longValue |-> {}, longAttached |-> {}, refuse |-> {},
             assigns |-> FALSE, loneDash |-> FALSE, bare |-> FALSE]]

IsAssignment(w) == Shape(w).form = "assign"
Base(w) == IF Shape(w).base = "" THEN w ELSE Shape(w).base
WrapperName(words) == IF words = <<>> THEN "" ELSE Base(words[1])
FirstIndex(S) == IF S = {} THEN 0 ELSE CHOOSE i \in S : \A j \in S : i <= j
From(words, i) == SubSeq(words, i, Len(words))

-----------------------------------------------------------------------------
(* What kind of wrapper it is, and where its command begins. *)

\* The first short cluster with a "c" before "--"; 0 if there is none.
ShortFlagC(words) ==
  FirstIndex({i \in 2..Len(words) :
                /\ Shape(words[i]).form = "short" /\ "c" \in Letters(words[i])
                /\ \A j \in 2..i-1 : words[j] # "--"})

ExecFlagIndex(words) ==
  FirstIndex({i \in 2..Len(words) : words[i] \in ExecFlags(WrapperName(words))})

ClassifyWrapperWords(words) ==
  LET name == WrapperName(words)
  IN  IF name = "eval" \/ (name \in ShellNames /\ ShortFlagC(words) # 0) THEN "opaque-payload"
      ELSE IF name \in IndirectionNames \/ ExecFlagIndex(words) # 0 THEN "indirection"
      ELSE "none"

\* How many words an option takes: 1 or 2, or 0 when it is not understood.
ShortClusterWords(w, g) ==
  LET letters == Shape(w).letters
      stop == FirstIndex({i \in DOMAIN letters : letters[i] \notin g.flag})
  IN  IF stop = 0 \/ letters[stop] \in g.optional THEN 1
      ELSE IF letters[stop] \notin g.value THEN 0
      ELSE IF stop < Len(letters) \/ Shape(w).attached THEN 1 ELSE 2

LongOptionWords(w, g) ==
  LET table == g.longFlag \cup g.longValue \cup g.longAttached \cup g.refuse
      typed == Shape(w).name
      meant == IF typed \in table THEN {typed} ELSE Shape(w).prefixOf \cap table
  IN  CASE \A m \in meant : \E n \in meant : m # n -> 0     \* none, or several
        [] meant \subseteq g.refuse -> 0
        [] meant \subseteq g.longAttached /\ ~Shape(w).attached -> 0
        [] meant \subseteq g.longValue /\ ~Shape(w).attached -> 2
        [] OTHER -> 1

\* Where a getopt wrapper's options end, counting the words before it; 0 when
\* some option is not understood.
GetoptWalkEnd(words, g) ==
  LET n == Len(words)
      Assigned(i) == IF ~g.assigns THEN i
                     ELSE FirstIndex({k \in i..n+1 : k = n + 1 \/ ~IsAssignment(words[k])})
      walk[i \in 2..n+2] ==
        IF i > n THEN i
        ELSE LET w == words[i]
             IN  IF w = "--" \/ (w = "-" /\ g.loneDash) THEN Assigned(i + 1)
                 ELSE IF ~IsOption(w) THEN Assigned(i)
                 ELSE LET taken == IF Shape(w).form = "long" THEN LongOptionWords(w, g)
                                                             ELSE ShortClusterWords(w, g)
                      IN  IF taken = 0 THEN 0 ELSE walk[i + taken]
  IN  walk[2]

\* The other wrappers: options, assignments and, for two of them, an operand.
TableInnerIndex(words, name) ==
  LET n == Len(words)
      walk[i \in 2..n+2, pending \in BOOLEAN] ==
        IF i > n THEN 0
        ELSE LET w == words[i]
             IN  IF w = "--" THEN (IF pending THEN i + 2 ELSE i + 1)
                 ELSE IF IsAssignment(w) THEN walk[i + 1, pending]
                 ELSE IF StartsWithDash(w)
                      THEN walk[IF w \in ValueTaking(name) THEN i + 2 ELSE i + 1, pending]
                 ELSE IF pending THEN walk[i + 1, FALSE] ELSE i
  IN  walk[2, name \in LeadingOperand]

\* The index of the command inside, 0 or past the end when there is none.
InnerCommandIndex(words) ==
  LET name == WrapperName(words)
  IN  IF ExecFlagIndex(words) # 0 THEN ExecFlagIndex(words) + 1
      ELSE IF name \in DOMAIN Getopt
      THEN LET end == GetoptWalkEnd(words, Getopt[name])
           IN  IF end <= Len(words) THEN end ELSE 0
      ELSE TableInnerIndex(words, name)

\* A lone ";" or "+" ends it, as after find -exec.
ExecTerminator(words, start) ==
  LET end == FirstIndex({i \in start..Len(words) : words[i] \in {";", "\\;", "+", "\\+"}})
  IN  IF end = 0 THEN Len(words) + 1 ELSE end

-----------------------------------------------------------------------------
(* Peeling layer after layer. *)

UnwrapDepth == 4

DirectPayloadIndex(words) ==
  LET name == WrapperName(words)
      flag == ShortFlagC(words)
  IN  IF name = "eval" THEN (IF flag = 0 THEN 2 ELSE flag + 1)
      ELSE IF name \in ShellNames /\ flag # 0 THEN flag + 1 ELSE 0

Unwrap(words) ==
  LET Peel(s) ==
        LET start == InnerCommandIndex(s.words)
        IN  IF start = 0 \/ start > Len(s.words) THEN [s EXCEPT !.done = TRUE]
            ELSE [s EXCEPT !.words = SubSeq(@, start, ExecTerminator(s.words, start) - 1),
                           !.peeled = Append(@, SubSeq(s.words, 1, start - 1))]
      Step(s, depth) ==
        IF s.done THEN s
        ELSE LET kind == ClassifyWrapperWords(s.words)
             IN  CASE kind = "none" -> [s EXCEPT !.done = TRUE]
                   [] kind = "opaque-payload" -> [s EXCEPT !.done = TRUE, !.opaque = TRUE]
                   [] OTHER -> Peel(s)
  IN  FoldLeft(Step, [words |-> words, peeled |-> <<>>, opaque |-> FALSE, done |-> FALSE],
               [d \in 1..UnwrapDepth |-> d])

\* The words of the command a wrapper runs, when they are more than the
\* wrapper's own; <<>> if nothing new is known.
ExecutedUnit(words) ==
  LET u == Unwrap(words)
      payload == DirectPayloadIndex(u.words)
      text == IF ~u.opaque THEN u.words
              ELSE IF payload > Len(u.words) THEN <<>>
              ELSE IF Shape(u.words[payload]).payload # <<>> THEN Shape(u.words[payload]).payload
              ELSE <<u.words[payload]>>
  IN  IF text = <<>> \/ text = words \/ StartsWithDash(text[1]) THEN <<>> ELSE text

\* Where the command line handed to a shell is, through any wrappers; 0 if none.
InlineShellPayload(words) ==
  LET Step(s, depth) ==
        IF s.done THEN s
        ELSE LET direct == DirectPayloadIndex(s.words)
                 start == InnerCommandIndex(s.words)
             IN  IF direct # 0 THEN [s EXCEPT !.done = TRUE, !.at = s.base + direct]
                 ELSE IF \/ ClassifyWrapperWords(s.words) # "indirection"
                         \/ start = 0 \/ start > Len(s.words)
                 THEN [s EXCEPT !.done = TRUE]
                 ELSE [s EXCEPT !.base = @ + start - 1,
                                !.words = SubSeq(@, start, ExecTerminator(s.words, start) - 1)]
  IN  FoldLeft(Step, [words |-> words, base |-> 0, at |-> 0, done |-> FALSE],
               [d \in 1..UnwrapDepth |-> d]).at

-----------------------------------------------------------------------------
(* When the inner command decides instead of a question. *)

AdmittedModifierLayer(layer) ==
  LET name == WrapperName(layer)
      valued == ValueTaking(name) \ WritingOptions(name)
      n == Len(layer)
      admitted[i \in 2..n+2] ==
        \/ i > n
        \/ LET w == layer[i]
           IN  CASE IsAssignment(w) \/ w = "--" \/ ~StartsWithDash(w) -> admitted[i + 1]
                 [] w \in ModifierFlags(name) -> admitted[i + 1]
                 [] w \in valued -> admitted[i + 2]
                 [] OTHER -> Shape(w).heads \cap valued # {} /\ admitted[i + 1]
  IN  name \in ModifierNames /\ admitted[2]

ReachedLiteralCommand(words) ==
  /\ ClassifyWrapperWords(words) = "none"
  /\ words # <<>> /\ Shape(words[1]).literal

CarriesComputedWord(layer) == \E i \in 2..Len(layer) : Computed(layer[i])

NamesNoCommand(words) ==
  LET name == WrapperName(words)
  IN  /\ name \in DOMAIN Getopt /\ Getopt[name].bare
      /\ GetoptWalkEnd(words, Getopt[name]) = Len(words) + 1
      /\ ~CarriesComputedWord(words)

FloorExemption(words, writesViaRedirect) ==
  LET u == Unwrap(words)
      layers == ToSet(u.peeled)
      reader == /\ u.words # <<>>
                /\ ProveCommandEffect(u.words[1], From(u.words, 2)).effect = "read"
  IN  IF ClassifyWrapperWords(words) # "indirection" THEN "none"
      ELSE IF NamesNoCommand(words) THEN "no-command"
      ELSE IF \/ u.opaque \/ layers = {}
              \/ \E l \in layers : WrapperName(l) \in OpaqueCommandLine
              \/ \E l \in layers : CarriesComputedWord(l)
      THEN "none"
      ELSE IF reader /\ ~writesViaRedirect THEN "core-reader"
      ELSE IF (\A l \in layers : AdmittedModifierLayer(l)) /\ ReachedLiteralCommand(u.words)
      THEN "execution-modifier" ELSE "none"

-----------------------------------------------------------------------------
(* The pattern an answer "for this session" would grant for a command. *)

CONSTANT Arities        \* how many leading words name a command's operation, by prefix

Arity(words) ==
  LET known == {n \in DOMAIN words : SubSeq(words, 1, n) \in DOMAIN Arities}
      longest == CHOOSE n \in known : \A m \in known : m <= n
  IN  IF known = {} THEN 1
      ELSE IF Arities[SubSeq(words, 1, longest)] > Len(words) THEN Len(words)
      ELSE Arities[SubSeq(words, 1, longest)]

MayReplaceArguments(layer) ==
  \E i \in 2..Len(layer) :
    LET s == Shape(layer[i])
    IN  \/ s.form = "short" /\ ToSet(s.letters) \cap {"I", "i"} # {}
        \/ s.form = "long" /\ "replace" \in s.prefixOf \cup {s.name}

GeneralizesLayer(layer) ==
  LET name == WrapperName(layer)
  IN  /\ name # "" /\ name \notin OpaqueCommandLine
      /\ IF name = "xargs" THEN ~MayReplaceArguments(layer)
         ELSE \/ name \in DOMAIN Getopt
              \/ AdmittedModifierLayer(layer)
              \/ \A i \in 2..Len(layer) : ~StartsWithDash(layer[i])

\* How many words wrap the command the grant is about; -1 if that is unclear.
SessionCommandIndex(words) ==
  LET u == Unwrap(words)
      Length(acc, layer) == acc + Len(layer)
  IN  IF ClassifyWrapperWords(words) = "none" THEN 0
      ELSE IF \/ \E w \in ToSet(words) : Computed(w)
              \/ u.opaque
              \/ \E l \in ToSet(u.peeled) : ~GeneralizesLayer(l)
              \/ ~ReachedLiteralCommand(u.words)
      THEN -1 ELSE FoldLeft(Length, 0, u.peeled)

Spaced(words) ==
  FoldLeft(LAMBDA text, w : IF text = <<>> THEN WordText(w) ELSE text \o <<" ">> \o WordText(w),
           <<>>, words)

\* (The pattern is that of the command alone, whatever wraps it.)
SuggestBashPatternBare(words) ==
  LET inner == From(words, SessionCommandIndex(words) + 1)
  IN  Spaced(SubSeq(inner, 1, Arity(inner))) \o <<" ", "*">>

\* What an answer "for this session" grants: a lone word itself, a command with
\* any arguments, in the wrappers it was asked about.
SuggestBashPattern(words) ==
  LET wrapped == SessionCommandIndex(words)
      inner == From(words, wrapped + 1)
      kept == wrapped + Arity(inner)
  IN  IF Len(words) <= 1 \/ wrapped = -1 THEN Spaced(words)
      ELSE IF wrapped = 0 /\ kept >= Len(words) THEN Append(Spaced(words), "*")
      ELSE Spaced(SubSeq(words, 1, kept)) \o <<" ", "*">>
=============================================================================
