SPECIFICATION Spec
CONSTANTS
  NumAgents = 1
  MaxResumes = 0
  Limit = {1}
  Rash = {"teardown_unwinding"}
INVARIANTS
  WorkspaceOutlivesLoop
CHECK_DEADLOCK FALSE
