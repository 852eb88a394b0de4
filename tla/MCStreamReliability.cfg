\* Two workers on one definition, and an operator who edits it.
SPECIFICATION Spec
CONSTANTS
  w1 = w1
  w2 = w2
  Definitions = {d1}
  Workers = {w1, w2}
  Operators = {o1}
  Observations = {"breach", "met"}
  Required = 1
  Recovery = 1
  MissingPolicy = "no_data"
  Nobody = Nobody
  NoDefinition = NoDefinition
  MaxCycles = 3
  MaxFaults = 1
  MaxEdits = 1
SYMMETRY Symmetry
INVARIANTS CheckpointIsBacked NoTransitionLost StatusMovesOn
CHECK_DEADLOCK FALSE
