CONSTANTS
  e1 = e1
  e2 = e2
  w1 = w1
  w2 = w2
  r1 = r1
  r2 = r2
  v1 = v1
  v2 = v2
  Executions = {e1, e2}
  Workers = {w1}
  Reconcilers = {r1}
  Verifiers = {}
  Configured = {e1}
  NoExecution = NoExecution
  MaxAttempts = 2
  MaxToken = 2
  MaxCrashes = 1
SPECIFICATION FairSpec
CHECK_DEADLOCK FALSE
PROPERTIES
  NeverStuck
  EvidenceRepaired
