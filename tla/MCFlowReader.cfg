CONSTANTS
  f1 = f1
  f2 = f2
  f3 = f3
  s1 = s1
  s2 = s2
  Flow = {f1, f2, f3}
  Session = {s1, s2}
  Slug = {a, b}
  None = None
  SessionOf <- Sessions
  MaxAttempts = 2
SPECIFICATION ReadSpec
CHECK_DEADLOCK FALSE
INVARIANTS OneRunning Sound ReadWasTrue
PROPERTIES Final
