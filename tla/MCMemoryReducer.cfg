\* The bounds end every behaviour: no deadlock check.
CONSTANTS
  s1 = s1
  s2 = s2
  o1 = o1
  a = a
  b = b
  c = c
  Session = {s1, s2}
  Operator = {o1}
  Value = {a, b, c}
  Advance = 2
  MaxAsserts = 3
  MaxDecisions = 2
SPECIFICATION ReducerSpec
SYMMETRY Symmetry
CHECK_DEADLOCK FALSE
INVARIANTS ValueIsReplay NoVoiceLost DecisionStands
