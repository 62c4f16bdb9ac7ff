SPECIFICATION Spec
CONSTANTS
  Request <- TwoRequests
  InProcess <- FirstInProcess
  Kind <- SameKind
  ParentIds <- RecordedIds
  LocalAsk <- OneLocal
  Drain <- TwoDrains
  Ask <- DrainsAndGate
  Id <- TwoIds
  Grace = 1
  MaxFaults = 1
  Timed = TRUE
INVARIANTS
  DialogsDoNotOverlap
  NobodyWaitsForNothing
  OneDrainAtATime
PROPERTIES
  RulingReachesChild
  AnnouncedIsDrained
CHECK_DEADLOCK FALSE
