\* Two runs for one Snowflake integration, two queries.
SPECIFICATION Spec
CONSTANTS
  r1 = r1
  r2 = r2
  j1 = j1
  j2 = j2
  Runs = {r1, r2}
  Jobs = {j1, j2}
  FromWatermark = TRUE
  Lookback = 2
  Limit = 1
  BulkSize = 1
  MaxAttempts = 2
  MaxTime = 4
  MaxFaults = 2
SYMMETRY Symmetry
INVARIANTS AdvanceIsBacked SkippedIsExplained
CHECK_DEADLOCK FALSE
