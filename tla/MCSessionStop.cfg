SPECIFICATION Spec
CONSTANTS
  Stops = {s1, s2}
  MaxTurns = 2
  MaxActivations = 2
  MaxDeaths = 1
SYMMETRY Symmetry
CHECK_DEADLOCK FALSE
INVARIANTS OneActivation InOrder DoneIsPublished
PROPERTIES MemoryAdvances
