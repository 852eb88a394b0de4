CONSTANTS
  s1 = s1
  s2 = s2
  s3 = s3
  p1 = p1
  q1 = q1
  e1 = e1
  Spans = {s1, s2, s3}
  At <- AtSpread
  EdgeOf <- OnlyLate
  Edges = {e1}
  NoEdge = NoEdge
  Workers = {p1}
  Replayers = {q1}
  Nobody = Nobody
  Former = Former
  Window = 1
  PageSize <- Pages
  MaxTime = 3
  MaxToken = 3
SPECIFICATION FairSpec
CHECK_DEADLOCK FALSE
INVARIANTS
  TokensAreUnique
  InTimeUnlessOvertaken
PROPERTIES
  WatermarkIsFenced
  ImplementsContract
  LeaseChangesHands
