CONSTANTS
  e1 = e1
  e2 = e2
  w1 = w1
  w2 = w2
  r1 = r1
  r2 = r2
  v1 = v1
  v2 = v2
  Executions = {e1}
  Workers = {w1, w2}
  Reconcilers = {r1}
  Verifiers = {v1}
  Configured = {e1}
  NoExecution = NoExecution
  MaxAttempts = 2
  MaxToken = 3
  MaxCrashes = 1
SPECIFICATION Spec
SYMMETRY Symmetry
CHECK_DEADLOCK FALSE
INVARIANTS
  OneEffectUnlessClobbered
  RetryBudgetUnlessClobbered
  FailedHasNoEffect
  FenceIsExclusive
  VerificationNeedsEffect
  EvidenceIsKept
PROPERTIES
  TerminalStableUnlessClobbered
  ImplementsContract
