SPECIFICATION FairSpec
CONSTANTS
  Request <- TwoRequests
  InProcess <- FirstInProcess
  Kind <- SameKind
  ParentIds <- BothFirst
  LocalAsk <- OneLocal
  Drain <- OneDrain
  Ask <- DrainAndGate
  Id <- TwoIds
  Grace = 1
  MaxFaults = 1
  Timed = TRUE
PROPERTIES
  InboxKeepsMoving
  UnservedChildEnds
CHECK_DEADLOCK FALSE
