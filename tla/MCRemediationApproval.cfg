CONSTANTS
  a1 = a1
  x1 = x1
  h1 = h1
  h2 = h2
  r1 = r1
  alice = alice
  bob = bob
  Approvals = {a1}
  Direct = {x1}
  Handlers = {h1, h2}
  Reconcilers = {r1}
  People = {alice, bob}
  Approvers = {alice, bob}
  PreviewActor <- ActorIsAlice
  Nobody = Nobody
  NoRequest = NoRequest
  MaxRevision = 5
  MaxCrashes = 1
SPECIFICATION FairSpec
CHECK_DEADLOCK FALSE
INVARIANTS
  SeparationOfDuties
  ConsumedIsPublished
  DecisionHasEvidence
PROPERTIES
  DecisionsAreFinal
  ImplementsContract
  ReconcilerSettles
