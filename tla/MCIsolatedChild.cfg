SPECIFICATION FairSpec
CONSTANTS
  SpawnChoices <- Choices
  Lowercase <- LowercaseOf
  Caller = {sweep, shutdown}
  MaxRuns = 2
  MaxTurns = 3
  Child = {child}
  agent = child
INVARIANTS
  TurnsWithinBudget
  NoFailurePassesAsAnswer
  TeardownInOrder
  WorkIsFindable
PROPERTIES
  DisposalIsAnnounced
CHECK_DEADLOCK FALSE
