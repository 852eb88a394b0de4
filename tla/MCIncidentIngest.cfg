\* Two of three reports in two processes, and two operators.
SPECIFICATION Spec
CONSTANTS
  h1 = h1
  h2 = h2
  o1 = o1
  o2 = o2
  r1 = r1
  r2 = r2
  r3 = r3
  f1 = f1
  f2 = f2
  a1 = a1
  a2 = a2
  k1 = k1
  k2 = k2
  Reports = {r1, r2, r3}
  Findings = {f1, f2}
  Assets = {a1, a2}
  FindingOf <- MCFindingOf
  ObservedAt <- MCObservedAt
  EvidenceOf <- MCEvidenceOf
  AssetsOf <- MCAssetsOf
  Keys = {k1, k2}
  ChangeOf <- MCChangeOf
  Direct = {"acknowledged"}
  Handlers = {h1, h2}
  Operators = {o1, o2}
  Nobody = Nobody
  MaxAttempts = 2
  MaxArrivals = 2
  MaxRequests = 2
INVARIANTS ProjectionIsComplete AnsweredIsMerged HistoryIsLegal TimelineIsTrue
SYMMETRY Symmetry
CHECK_DEADLOCK FALSE
