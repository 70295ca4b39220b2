SPECIFICATION Spec
CONSTANTS
  Sessions = {s1, s2}
  Changes = {a}
  Commands = {p1, p2}
  NoChange = none
  None = noone
  LeaseTime = 1
  MaxTurns = 3
  MaxWrites = 3
  MaxClock = 1
SYMMETRY Symmetry
\* Violated, each in place of the PROPERTIES: INVARIANT PointerIsDerived, ExpiryIsDiagnosed.
CHECK_DEADLOCK FALSE
PROPERTIES TaskNotStolen ConsumedIsRead ActedAsRead
