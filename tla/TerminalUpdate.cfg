\* Two runs for one SageMaker integration, one job.
SPECIFICATION Spec
CONSTANTS
  r1 = r1
  r2 = r2
  j1 = j1
  j2 = j2
  Runs = {r1, r2}
  Jobs = {j1}
  FromWatermark = FALSE
  Lookback = 2
  Limit = 1
  BulkSize = 1
  MaxAttempts = 2
  MaxTime = 3
  MaxFaults = 0
INVARIANT TerminalUpdateStored
CHECK_DEADLOCK FALSE
