\* One agent of two runs, two tool calls and two updates, alike or not: enough
\* for two waits on one run, one of them abandoned, for a pull before the flush,
\* and for a carrier that outlives a resume.
SPECIFICATION FairSpec
CONSTANTS
  Message = {m, n}
  MaxRuns = 2
  MaxUpdates = 2
  MaxCalls = 2
  Rash = {}
INVARIANTS
  OneCarrier
  OutcomesTold
  UpdatesTold
PROPERTIES
  EveryEndIsTold
CHECK_DEADLOCK FALSE
