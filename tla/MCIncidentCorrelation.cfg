\* Three incidents of one group in an API process, and a worker.
SPECIFICATION FairSpec
CONSTANTS
  Incidents = {1, 2, 3}
  Related <- MCRelated
  SeenAt <- MCSeenAt
  Bypass = {3}
  First = {1}
  Handlers = {h1}
  Workers = {w1}
  SampleSize = 2
  Elevated = 1
  Flooding = 2
  Hysteresis = 0
  Observation = 5
  MaxRetries = 2
  MaxRevision = 2
  Batch = 1
  MaxArrivals = 3
  MaxReplays = 1
  MaxFaults = 1
INVARIANTS MembersCountOnce CompleteIsRecorded SuppressedOnce
PROPERTIES DeferredIsProcessed
CHECK_DEADLOCK FALSE
