----------------------------- MODULE BashEffects -----------------------------
(* What a shell command does to the files it names: the commands known only   *)
(* to read, the options and scripts that take the claim back, the effects the *)
(* user declared, and what a redirect does to its destination.                *)
(*                                                                            *)
(* A word is an atom.  Lex describes the words whose spelling matters; every  *)
(* other word is plain.  An option's leading dashes belong to the word, not   *)
(* to its "name" or its "letters".                                            *)
EXTENDS Integers, Sequences, SequencesExt

CONSTANTS Lex,          \* description of the words that are not plain
          Declared      \* the commands whose effects the user declared

Plain == [form |-> "plain",     \* plain, short, long, assign, "-" or "--"
          base |-> "",          \* the command's name without its directory
          letters |-> <<>>,     \* the letters of a cluster of short options
          name |-> "",          \* the name of a long option, as typed
          prefixOf |-> {},      \* the option names it abbreviates
          heads |-> {},         \* the option a value is attached to
          attached |-> FALSE,
          value |-> "",         \* the value that is attached
          computed |-> FALSE,   \* its value is decided when it runs
          mayDash |-> FALSE,    \* and may turn out to be an option
          literal |-> TRUE,     \* can be read as a command's name
          script |-> <<>>,      \* the commands of a sed script
          writes |-> FALSE,     \* the awk program's text could write
          payload |-> <<>>,     \* the words of a quoted command line
          text |-> <<>>]        \* its spelling, when it has several atoms

Shape(w) == IF w \in DOMAIN Lex THEN Lex[w] ELSE Plain
IsOption(w) == Shape(w).form \in {"short", "long", "--"}
StartsWithDash(w) == IsOption(w) \/ Shape(w).form = "-"
Letters(w) == ToSet(Shape(w).letters)
Computed(w) == Shape(w).computed
WordText(w) == IF Shape(w).text = <<>> THEN <<w>> ELSE Shape(w).text

Effect(effect, source) == [effect |-> effect, source |-> source]
Unproven == Effect("unproven", "unproven")
Retracted == Effect("unproven", "retracted")

\* Two readings of one token keep what they agree on.
MergeTokenEffects(a, b) ==
  IF a.effect # b.effect THEN Unproven ELSE IF a.source = "unproven" THEN b ELSE a

-----------------------------------------------------------------------------
(* Options that take the claim back. *)

NoGuard == [exact |-> {}, stems |-> {}, letters |-> {}, prefixes |-> {}]

\* (A guard that knows only the spellings it lists.)
RetractsClaimAsListed(w, guard) ==
  w \in guard.exact \/ Shape(w).name \in guard.stems \/ w \in guard.prefixes

\* An abbreviation of a guarded option is guarded too, and so is a cluster
\* that holds a guarded letter anywhere.
RetractsClaim(w, guard) ==
  \/ w \in guard.exact
  \/ /\ Shape(w).form = "long"
     /\ guard.stems \cap (Shape(w).prefixOf \cup {Shape(w).name}) # {}
  \/ guard.prefixes \cap (Shape(w).heads \cup {w}) # {}
  \/ Shape(w).form = "short" /\ Letters(w) \cap guard.letters # {}

OptionGuard(guard, args) ==
  \E w \in ToSet(args) : IF Computed(w) THEN Shape(w).mayDash ELSE RetractsClaim(w, guard)

FindGuard == [NoGuard EXCEPT !.exact = {"-exec", "-execdir", "-ok", "-okdir", "-delete",
                                        "-fprint", "-fprint0", "-fprintf", "-fls"}]
FdGuard == [NoGuard EXCEPT !.stems = {"exec", "exec-batch"}, !.letters = {"x", "X"}]
SortGuard == [NoGuard EXCEPT !.stems = {"output"}, !.letters = {"o"}]

-----------------------------------------------------------------------------
(* sed and awk: the claim stands only if every option is known and the script *)
(* holds nothing but commands that cannot write.                              *)

\* A script is a sequence of commands [cmd, flags, formed]; "formed" is FALSE
\* when an address, a delimiter or a number does not read as one.
ProvesReadOnlyScript(script) ==
  LET harmless == {"p", "P", "d", "D", "n", "N", "g", "G", "h", "H", "x", "=", "z", "F",
                   "l", "q", "Q", "y", "b", "t", "T", ":", "#", "{", "}"}
      Open(acc, c) == IF acc < 0 THEN acc
                      ELSE CASE c.cmd = "{" -> acc + 1
                             [] c.cmd = "}" -> acc - 1
                             [] OTHER -> acc
  IN  /\ \A c \in ToSet(script) :
           /\ c.formed
           /\ \/ c.cmd \in harmless
              \/ c.cmd = "s" /\ c.flags \subseteq {"g", "p", "i", "I", "m", "M", "1"}
      /\ FoldLeft(Open, 0, script) = 0

SedFlagWords == {"--quiet", "--silent", "--regexp-extended", "--separate", "--unbuffered",
                 "--null-data", "--posix", "--debug", "--sandbox"}

\* Scripts come with -e or --expression, attached or as the next word, else
\* the first operand is the script.  An expression after an operand is refused.
SedScripts(args) ==
  LET flagLetters == {"n", "E", "r", "s", "u", "z"}
      Expression(w) ==          \* none, attached, next, or refused
        LET s == Shape(w)
            e == SelectInSeq(s.letters, LAMBDA l : l = "e")
        IN  IF s.form = "long"
            THEN IF s.name # "expression" THEN "refused"
                 ELSE IF s.attached THEN "attached" ELSE "next"
            ELSE IF ~(ToSet(IF e = 0 THEN s.letters ELSE SubSeq(s.letters, 1, e - 1))
                        \subseteq flagLetters)
                 THEN "refused"
                 ELSE IF e = 0 THEN "none" ELSE IF s.attached THEN "attached" ELSE "next"
      Step(s, w) ==
        IF s.takes
        THEN [s EXCEPT !.takes = FALSE, !.scripts = Append(@, Shape(w).script)]
        ELSE IF s.ended \/ ~IsOption(w)
        THEN [s EXCEPT !.first = IF @ = <<>> THEN <<Shape(w).script>> ELSE @]
        ELSE IF w = "--" THEN [s EXCEPT !.ended = TRUE]
        ELSE IF w \in SedFlagWords THEN s
        ELSE LET e == Expression(w)
             IN  [s EXCEPT !.refused = @ \/ e = "refused"
                                         \/ (e \in {"attached", "next"} /\ s.first # <<>>),
                           !.takes = (e = "next"),
                           !.scripts = IF e = "attached" THEN Append(@, Shape(w).script) ELSE @]
      end == FoldLeft(Step, [scripts |-> <<>>, first |-> <<>>, takes |-> FALSE,
                             ended |-> FALSE, refused |-> FALSE], args)
  IN  IF end.refused \/ end.takes THEN <<>>
      ELSE IF end.scripts # <<>> THEN end.scripts ELSE end.first

SedWithdrawsReadClaim(args) ==
  LET scripts == SedScripts(args)
  IN  \/ \E w \in ToSet(args) : Computed(w)
      \/ scripts = <<>>
      \/ \E s \in ToSet(scripts) : ~ProvesReadOnlyScript(s)

\* awk takes -F and -v with a value; its program is the first operand.
AwkWithdrawsReadClaim(args) ==
  LET Step(s, w) ==
        IF s.takes THEN [s EXCEPT !.takes = FALSE]
        ELSE IF s.ended \/ ~IsOption(w)
        THEN [s EXCEPT !.program = IF @ = "" THEN w ELSE @]
        ELSE IF s.program # "" THEN [s EXCEPT !.refused = TRUE]
        ELSE IF w = "--" THEN [s EXCEPT !.ended = TRUE]
        ELSE IF w \in {"-F", "-v"} THEN [s EXCEPT !.takes = TRUE]
        ELSE [s EXCEPT !.refused = @ \/ Shape(w).heads \cap {"-F", "-v"} = {}]
      end == FoldLeft(Step, [program |-> "", takes |-> FALSE, ended |-> FALSE,
                             refused |-> FALSE], args)
  IN  \/ \E w \in ToSet(args) : Computed(w)
      \/ end.refused \/ end.takes \/ end.program = ""
      \/ Shape(end.program).writes

-----------------------------------------------------------------------------
(* The proof for a command. *)

PureReaderCore ==
  {"cat", "head", "tail", "wc", "grep", "egrep", "fgrep", "rg", "diff", "ls", "stat", "pwd",
   "basename", "dirname", "realpath", "echo", "which", "cd", "true", "false", ":",
   "find", "fd", "sort", "sed", "awk"}

WithdrawsClaim(head, args) ==
  CASE head = "find" -> OptionGuard(FindGuard, args)
    [] head = "fd" -> OptionGuard(FdGuard, args)
    [] head = "sort" -> OptionGuard(SortGuard, args)
    [] head = "sed" -> SedWithdrawsReadClaim(args)
    [] head = "awk" -> AwkWithdrawsReadClaim(args)
    [] OTHER -> FALSE

\* Only the bare name counts: a path to a program of that name proves nothing.
ProveCommandEffect(head, args) ==
  IF head \notin PureReaderCore THEN Unproven
  ELSE IF WithdrawsClaim(head, args) THEN Retracted
  ELSE Effect("read", "core")

\* A declaration is [scope, effects, unless, subs]: "effects" is {"?"} when
\* the entry declares none.  Subcommands are read word by word.
DeclaredEntry(declared, args) ==
  LET Step(s, w) ==
        IF s.done \/ s.entry.subs = <<>> THEN [s EXCEPT !.done = TRUE]
        ELSE IF Computed(w) \/ StartsWithDash(w)
        THEN [s EXCEPT !.done = TRUE, !.lost = TRUE]
        ELSE IF w \notin DOMAIN s.entry.subs THEN [s EXCEPT !.done = TRUE]
        ELSE [s EXCEPT !.entry = s.entry.subs[w], !.unless = @ \cup s.entry.subs[w].unless]
  IN  FoldLeft(Step, [entry |-> declared, unless |-> declared.unless,
                      done |-> FALSE, lost |-> FALSE], args)

StemGuard(stems) ==
  LET Of(kind) == {s.name : s \in {x \in stems : x.kind = kind}}
  IN  [exact |-> {}, stems |-> Of("long"), letters |-> Of("letter"), prefixes |-> Of("prefix")]

Attribution(kind, effect) == [kind |-> kind, effect |-> effect]

AttributionOf(effects, source) ==
  LET reads == "read" \in effects
      writes == "write" \in effects
  IN  IF ~reads /\ ~writes THEN Attribution("inert", Effect("unproven", source))
      ELSE Attribution("effect", Effect(IF reads /\ writes THEN "unproven"
                                        ELSE IF reads THEN "read" ELSE "write", source))

ProveDeclaredEffect(head, args) ==
  IF head \notin DOMAIN Declared THEN Attribution("effect", Unproven)
  ELSE LET reached == DeclaredEntry(Declared[head], args)
       IN  IF reached.lost \/ reached.entry.effects = {"?"} THEN Attribution("effect", Unproven)
           ELSE IF reached.unless # {} /\ OptionGuard(StemGuard(reached.unless), args)
           THEN Attribution("effect", Retracted)
           ELSE AttributionOf(reached.entry.effects, Declared[head].scope)

AttributeCommandOperands(head, args) ==
  LET core == ProveCommandEffect(head, args)
  IN  IF core.source # "unproven" THEN Attribution("effect", core)
                                  ELSE ProveDeclaredEffect(head, args)

-----------------------------------------------------------------------------
(* Redirects: [op, dest, fd, err], "fd" when the destination is a descriptor  *)
(* and "err" when the parser had to guess.                                    *)

NoFile == Effect("none", "syntax")

RedirectDestinationEffect(op, isDescriptor) ==
  CASE op \in {">&", "<&"} /\ isDescriptor -> NoFile
    [] op \in {">&", ">", ">>", ">|", "&>", "&>>"} -> Effect("write", "syntax")
    [] op \in {"<&", "<", "<<<"} -> Effect("read", "syntax")
    [] OTHER -> Unproven

RedirectEffect(r) ==
  LET proven == RedirectDestinationEffect(r.op, r.fd)
  IN  IF proven = NoFile \/ ~r.err THEN proven ELSE Unproven

\* Not the negation of a write: what cannot be resolved counts as one.
RedirectMayWriteFile(r) ==
  r.err \/ (~r.fd /\ r.dest # "/dev/null" /\ RedirectEffect(r).effect # "read")
=============================================================================
