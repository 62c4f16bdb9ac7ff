\* Two agents of two runs each, against one slot: enough for a
\* queued resume behind an unwinding run and for abortAll() to stop one agent
\* while the event of another resumes it.
SPECIFICATION FairSpec
CONSTANTS
  NumAgents = 2
  MaxResumes = 1
  Limit = {1}
  Rash = {}
INVARIANTS
  QueuedRunHasThunk
  WorkspaceOutlivesLoop
  OneLoopPerSession
PROPERTIES
  QueuedRunEnds
CHECK_DEADLOCK FALSE
