\* Two operators decide on one candidate.
CONSTANTS
  s1 = s1
  s2 = s2
  o1 = o1
  o2 = o2
  a = a
  b = b
  Session = {s1, s2}
  Operator = {o1, o2}
  Value = {a, b}
  Advance = 2
  MaxAsserts = 2
  MaxDecisions = 2
SPECIFICATION ReducerSpec
SYMMETRY Symmetry
CHECK_DEADLOCK FALSE
INVARIANT DecisionIsIdempotent
