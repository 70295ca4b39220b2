CONSTANTS
  Devices = {d1, d2}
  NoDevice = NoDevice
  MaxEdits = 2
  MaxEvents = 4
  MaxCrashes = 1
SYMMETRY Symmetry
SPECIFICATION Spec
CHECK_DEADLOCK FALSE
INVARIANTS  Accounted
