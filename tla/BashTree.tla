------------------------------- MODULE BashTree -------------------------------
(* The tree a shell command is parsed into, the directory each of its parts   *)
(* is read against, and the regions that are parsed a second time.            *)
(*                                                                            *)
(* A path is the sequence of its components from the root.  Spelled says how  *)
(* a word reads as a path; a word it does not name is a bare file name.       *)
EXTENDS BashWrappers

CONSTANTS Spelled,      \* word -> [root, segs, verbatim]
          Cwd,          \* the session's directory
          Home          \* the user's

\* root is "abs", "home", "rel" or "none"; "named" says the spelling has a
\* separator or a leading dot; "verbatim" that the shell expands nothing in it.
PathOf(w) == IF w \in DOMAIN Spelled THEN Spelled[w]
             ELSE IF IsOption(w) \/ IsAssignment(w)
             THEN [root |-> "none", segs |-> <<>>, named |-> FALSE, verbatim |-> FALSE]
             ELSE [root |-> "rel", segs |-> <<w>>, named |-> FALSE, verbatim |-> FALSE]

Normal(segs) ==
  LET Step(acc, s) == CASE s = "." -> acc
                        [] s = ".." -> IF acc = <<>> THEN acc ELSE Front(acc)
                        [] OTHER -> Append(acc, s)
  IN  FoldLeft(Step, <<>>, segs)

\* A directory that may not be known.
Known(segs) == [known |-> TRUE, segs |-> segs]
Unknown == [known |-> FALSE, segs |-> <<>>]

\* The absolute path a spelling stands for, read against a known directory.
Located(spelling, base) ==
  Normal(CASE spelling.root = "abs" -> spelling.segs
           [] spelling.root = "home" -> Home \o spelling.segs
           [] OTHER -> base.segs \o spelling.segs)

-----------------------------------------------------------------------------
(* Nodes.  A command has words; "hosted" are the substitutions inside them or *)
(* inside the redirects, "sets" the variables it gives a value; "bg" says "&" *)
(* follows, "err" that the parser lost its way below, and "again" is what a   *)
(* second parse of the text gives.                                            *)

Node(t, kids) == [t |-> t, kids |-> kids, words |-> <<>>, redirs |-> <<>>, hosted |-> <<>>,
                  sets |-> {}, bg |-> FALSE, err |-> FALSE, again |-> <<>>,
                  base |-> Known(Cwd)]
Command(words) == [Node("command", <<>>) EXCEPT !.words = words]
Redirect(op, dest) == [op |-> op, dest |-> dest, fd |-> FALSE, err |-> FALSE]
Redirected(body, r) == [Node("redirected", <<body>>) EXCEPT !.redirs = <<r>>]

CurrentShell == {"program", "list", "redirected", "group"}
Compound == {"if", "while", "for", "case", "function", "group", "negated"}
\* "time ( ... )" reads as a command with a subshell for its argument.
IsTimed(node) == node.t = "command" /\ node.words = <<"time">> /\ node.kids # <<>>

RECURSIVE Text(_)
Text(node) ==
  LET Joined(sep) == FoldLeft(LAMBDA acc, k : IF acc = <<>> THEN Text(k) ELSE acc \o sep \o Text(k),
                              <<>>, node.kids)
      Redirs(acc, r) == acc \o <<" ", r.op, " ">> \o WordText(r.dest)
      body == CASE node.t = "command" -> Spaced(node.words) \o Joined(<<>>)
                [] node.t = "subshell" -> <<"(">> \o Joined(<<";", " ">>) \o <<")">>
                [] node.t \in Compound \cup {"ERROR"} ->
                     <<node.t, " ">> \o Spaced(node.words) \o Joined(<<";", " ">>)
                [] node.t = "pipeline" -> Joined(<<" ", "|", " ">>)
                [] OTHER -> Joined(<<";", " ">>)
  IN  FoldLeft(Redirs, body, node.redirs)

\* Deepest regions the parser lost its way in, parsed again on their own.
RECURSIVE Unresolved(_)
Unresolved(node) ==
  LET Below(k) == IF k.t = "ERROR" THEN <<>>
                  ELSE LET deeper == Unresolved(k)
                       IN  IF deeper # <<>> \/ ~k.err THEN deeper ELSE <<k>>
      kids == node.kids \o node.hosted
  IN  IF ~node.err THEN <<>> ELSE FlattenSeq([i \in DOMAIN kids |-> Below(kids[i])])

SalvagedRoots(root) ==
  LET regions == Unresolved(root)
      Clean(tree) == ~tree.err
  IN  SelectSeq(FlattenSeq([i \in DOMAIN regions |-> regions[i].again]), Clean)

RECURSIVE Everywhere(_)
Everywhere(node) == {node} \cup UNION {Everywhere(k) : k \in ToSet(node.kids \o node.hosted)}

-----------------------------------------------------------------------------
(* The directory in force at each node: "cd" in the current shell moves it    *)
(* for what follows.                                                          *)

\* The first argument decides; what the shell expands is not known.
FoldCd(node, base) ==
  LET args == SelectSeq(Tail(node.words), LAMBDA w : w # "--")
      target == PathOf(args[1])
  IN  IF node.words = <<>> \/ Base(node.words[1]) # "cd" THEN base
      ELSE IF args = <<>> \/ Computed(args[1]) \/ args[1] = "-" \/ target.root = "home"
      THEN Unknown
      ELSE IF target.root # "abs" /\ ~base.known THEN Unknown
      ELSE Known(Located(target, base))

RECURSIVE Stamp(_, _)
Stamp(node, base) ==
  [node EXCEPT !.base = base,
               !.kids = [i \in DOMAIN @ |-> Stamp(@[i], base)],
               !.hosted = [i \in DOMAIN @ |-> Stamp(@[i], base)]]

\* A walk gives the node with its directories and the one in force after it.
Walked(node, after) == [node |-> node, after |-> after]
RECURSIVE Walk(_, _)
RECURSIVE FirstStage(_, _)

WalkSequence(node, base) ==
  LET Step(s, k) == LET w == Walk(k, s.base)
                    IN  [kids |-> Append(s.kids, w.node),
                         base |-> IF k.bg THEN s.base ELSE w.after]
      end == FoldLeft(Step, [kids |-> <<>>, base |-> base], node.kids)
      Hosts == [i \in DOMAIN node.hosted |-> Stamp(node.hosted[i], end.base)]
  IN  Walked([node EXCEPT !.kids = end.kids, !.hosted = Hosts, !.base = end.base], end.base)

\* The parser may read "cd a && b > f | c" as a pipeline whose first stage is
\* the list: all of it but its last command runs in the current shell.
FirstStage(node, base) ==
  CASE node.t = "list" ->
         LET lead == WalkSequence([node EXCEPT !.kids = Front(@)], base)
         IN  Walked([lead.node EXCEPT !.kids = Append(@, Stamp(Last(node.kids), lead.after))],
                    lead.after)
    [] node.t = "redirected" ->
         LET body == FirstStage(node.kids[1], base)
         IN  Walked([Stamp(node, body.after) EXCEPT !.kids = <<body.node>>], body.after)
    [] OTHER -> Walked(Stamp(node, base), base)

Walk(node, base) ==
  CASE node.t \in CurrentShell -> WalkSequence(node, base)
    [] IsTimed(node) ->
         Walked([Stamp(node, base) EXCEPT !.kids = <<Walk(node.kids[1], base).node>>], base)
    [] node.t = "command" -> Walked(Stamp(node, base), FoldCd(node, base))
    [] node.t = "pipeline" ->
         LET first == FirstStage(node.kids[1], base)
             Later(i) == IF i = 1 THEN first.node ELSE Stamp(node.kids[i], first.after)
         IN  Walked([Stamp(node, first.after) EXCEPT !.kids = [i \in DOMAIN @ |-> Later(i)]],
                    first.after)
    [] node.t = "subshell" -> Walked(WalkSequence(node, base).node, base)
    [] OTHER -> Walked(Stamp(node, base), base)

\* An aliased shell tool starts in the directory its call names.
InitialBase(workdir) ==
  IF workdir = "" THEN Known(Cwd) ELSE Known(Located(PathOf(workdir), Known(Cwd)))
=============================================================================
