SPECIFICATION FairSpec
CONSTANTS
  bad = bad
  unreadable = unreadable
  Bad <- bad
  Unreadable <- unreadable
  PathOf <- Paths
  DirOf <- Dirs
  ExtOf <- Exts
  ParentOf <- Parents
  Cwd = "sub"
  GitRoot = "repo"
  OnPath = {"treefmt", "treefmt-nix", "prettier"}
  TreefmtDirs = {"sub"}
  NixDirs = {"repo"}
  NoConfig = NoConfig
  NoBuild = 0
  MaxBuilds = 2
  Layers <- AllLayers
  Results <- AllResults
  Touches <- AllTouches
  MaxEvents = 3
INVARIANTS
  OnlyConfiguredRuns
  DispatchIsExact
PROPERTIES
  NothingWrittenIsLost
  EditsAreIndexed
CHECK_DEADLOCK FALSE
