\* Two agents of two runs each, against a limit of one or two: enough for a
\* queued resume behind an unwinding run and for abortAll() to stop one agent
\* while the event of another resumes it.
SPECIFICATION Spec
CONSTANTS
  NumAgents = 2
  MaxResumes = 1
  Limit = {1, 2}
  Rash <- RashKinds
INVARIANTS
  ReportedOnce
  LimiterIntact
CHECK_DEADLOCK FALSE
