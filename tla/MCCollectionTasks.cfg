\* Two replicas handle the requests of two scanners.
SPECIFICATION Spec
CONSTANTS
  q1 = q1
  q2 = q2
  Scanners = {s1, s2}
  Home = s1
  Requests = {q1, q2}
  Results = {k1, k2}
  Nobody = Nobody
  NoResult = NoResult
  MaxLeases = 3
  MaxCalls = 6
  MaxFaults = 1
SYMMETRY Symmetry
INVARIANTS LeaseIsExclusive ResultIsRecorded
CHECK_DEADLOCK FALSE
