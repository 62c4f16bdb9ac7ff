------------------------------ MODULE Formatters ------------------------------
(* pi-autoformat: formatter-registry.ts, builtin-formatters.ts, the choices   *)
(* of formatter-executor.ts and touched-files-queue.ts with format-scope.ts:  *)
(* which formatter is due on which files.                                     *)
EXTENDS AutoformatConfig, FiniteSets

CONSTANTS
  PathOf,      \* the file each spelling names, as normalizePath() resolves it
  DirOf,       \* the directory of each file
  ExtOf,       \* its extension, "" for none
  ParentOf,    \* of each directory; the root is its own parent
  Cwd, GitRoot,
  OnPath,      \* commands installed
  TreefmtDirs, \* directories with a treefmt.toml
  NixDirs      \* directories with a flake.nix and a treefmt.nix

Ancestors ==
  LET up[d \in DOMAIN ParentOf] ==
        IF ParentOf[d] = d THEN <<d>> ELSE <<d>> \o up[ParentOf[d]]
  IN  up

(* resolveFormatScope(): outside a repository, and for an empty list, cwd.    *)
ScopeRoots(scope) ==
  CASE scope.kind = "repoRoot" -> {GitRoot}
    [] scope.kind = "list" /\ scope.roots # <<>> -> ToSet(scope.roots)
    [] OTHER -> {Cwd}
(* isInFormatScope(); add() of the queue: in the order of the first touch.    *)
InScope(file, config) ==
  ToSet(Ancestors[DirOf[file]]) \cap ScopeRoots(config.formatScope) # {}
Enqueue(queue, spellings, config) ==
  LET after[n \in 0..Len(spellings)] ==
        IF n = 0 THEN queue
        ELSE LET file == PathOf[spellings[n]]
             IN  IF \/ spellings[n] = Blank \/ ~InScope(file, config)
                    \/ file \in ToSet(after[n - 1])
                 THEN after[n - 1] ELSE Append(after[n - 1], file)
  IN  after[Len(spellings)]

-----------------------------------------------------------------------------
Chain(config, key) == IF key \in DOMAIN config.chains THEN config.chains[key] ELSE <<>>

(* groupFilesByChain(): one group for the wildcard, with every file, and one  *)
(* for each chain, with the files whose extensions share it.                  *)
GroupFilesByChain(files, config) ==
  LET Due(f) == Chain(config, ExtOf[f])
      all == Chain(config, "*")
  IN  (IF all = <<>> \/ files = {} THEN {}
       ELSE {[wildcard |-> TRUE, chain |-> all, files |-> files]})
      \cup {[wildcard |-> FALSE, chain |-> Due(f), files |-> {g \in files : Due(g) = Due(f)}] :
              f \in {f \in files : Due(f) # <<>>}}

(* resolveFormatterByName(): a declared formatter shadows a built-in, and one *)
(* that is disabled resolves to nothing.                                      *)
Resolves(name, config) ==
  IF name \in DOMAIN config.formatters THEN ~config.formatters[name].disabled
  ELSE name \in Builtins
ResolveFormatterByName(name, config) ==
  IF name \in DOMAIN config.formatters
  THEN [name |-> name, builtin |-> FALSE, command |-> config.formatters[name].command[1]]
  ELSE [name |-> name, builtin |-> TRUE, command |-> name]

(* resolveChainSteps(): steps, and alternatives, that resolve to nothing fall *)
(* out; what is left is named by its place in the chain and in the step.      *)
Alternatives(step, config) == {i \in DOMAIN step.names : Resolves(step.names[i], config)}
ResolveChainSteps(chain, config) == {i \in DOMAIN chain : Alternatives(chain[i], config) # {}}

\* The first of some places, 0 for none.
Earliest(places) == IF places = {} THEN 0 ELSE CHOOSE i \in places : \A j \in places : i <= j

-----------------------------------------------------------------------------
(* walkUp(): from each file's directory, the first that holds a config or     *)
(* that the cache knows; every directory visited is remembered.  The cache is *)
(* keyed by directory alone, whichever built-in asks.                         *)
NoRoot == "none"
WalkUp(files, matching, cache) ==
  LET Visit(found, f) ==
        LET path == Ancestors[DirOf[f]]
            stop == SelectInSeq(path, LAMBDA d : d \in DOMAIN found.cache \/ d \in matching)
            answer == CASE stop = 0 -> NoRoot
                        [] stop # 0 /\ path[stop] \in DOMAIN found.cache -> found.cache[path[stop]]
                        [] OTHER -> path[stop]
            visited == IF stop = 0 THEN ToSet(path) ELSE ToSet(SubSeq(path, 1, stop))
        IN  IF found.root # NoRoot THEN found
            ELSE [root |-> answer, cache |-> Spread(found.cache, [d \in visited |-> answer])]
  IN  FoldLeft(Visit, [root |-> NoRoot, cache |-> cache], files)
DiscoverRoot(name, files, cache) ==
  WalkUp(files, IF name = "treefmt" THEN TreefmtDirs ELSE NixDirs, cache)

(* The alternative a fallback settles on: the first whose command is on PATH. *)
(* The command of a built-in is probed under the built-in's name.             *)
Probed(step, config) ==
  {i \in Alternatives(step, config) :
     ResolveFormatterByName(step.names[i], config).command \in OnPath}

(* Where treefmt would win, treefmt-nix is preferred if it has the same root. *)
PreferNix(step, working, cache, config) ==
  LET BuiltIn(i, name) == step.names[i] = name /\ name \notin DOMAIN config.formatters
      first == Earliest(Probed(step, config))
      nix == Earliest({i \in Probed(step, config) : BuiltIn(i, "treefmt-nix")})
      toml == DiscoverRoot("treefmt", working, cache)
      flake == DiscoverRoot("treefmt-nix", working, toml.cache)
  IN  IF first # 0 /\ nix # 0 /\ BuiltIn(first, "treefmt")
      THEN [at |-> IF toml.root # NoRoot /\ toml.root = flake.root THEN nix ELSE first,
            cache |-> flake.cache]
      ELSE [at |-> first, cache |-> cache]

(* What executeChainGroupWithPartition() runs at a step, 0 for nothing.       *)
Choice(step, working, cache, config) ==
  IF step.kind = "single" THEN [at |-> Earliest(Alternatives(step, config)), cache |-> cache]
  ELSE PreferNix(step, working, cache, config)

(* partitionUnhandled(): what a built-in reports of a batch, and whether it   *)
(* counts as skipped.                                                         *)
NixReports(files) == {[handled |-> {}, skip |-> TRUE], [handled |-> files, skip |-> FALSE]}
TreefmtReports(files) ==
  {[handled |-> h, skip |-> FALSE] : h \in SUBSET files} \cup {[handled |-> {}, skip |-> TRUE]}
Reports(name, files) == IF name = "treefmt" THEN TreefmtReports(files) ELSE NixReports(files)
=============================================================================
