SPECIFICATION Spec
CONSTANTS
  p1 = p1
  p2 = p2
  x = x
  y = y
  auth = auth
  billing = billing
  Command = {p1, p2}
  Change = {x, y}
  Capability = {auth, billing}
  Edit = {e1}
  Deltas <- Touched
  NewCapability = {auth}
  Savable = {billing}
  Absent = Absent
  Linked = Linked
  MaxDeaths = 1
  MaxEvents = 3
SYMMETRY Symmetric
CHECK_DEADLOCK FALSE
INVARIANTS OneArchiver ChangeKept AllOrNone PromotedStays StateIsTrue
PROPERTIES EditsKept
