\* Two rival requests, one handler and two workers.
SPECIFICATION FairSpec
CONSTANTS
  k1 = k1
  k2 = k2
  Requests = {k1, k2}
  Target <- MCTarget
  Handlers = {h1}
  Workers = {w1}
  Nobody = Nobody
  MaxAttempts = 3
  MaxRevision = 3
  MaxArrivals = 2
  MaxFaults = 1
INVARIANTS ClosedIsBacked
PROPERTIES ImplementsContract EvidenceIsImmutable OpenIsClosed
CHECK_DEADLOCK FALSE
