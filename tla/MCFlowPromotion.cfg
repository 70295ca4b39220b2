CONSTANTS
  f1 = f1
  f2 = f2
  p1 = p1
  p2 = p2
  s1 = s1
  s2 = s2
  Flow = {f1, f2}
  Session = {s1, s2}
  Slug = {a}
  Proc = {p1, p2}
  None = None
  SessionOf <- TwoSessions
  MaxAttempts = 0
  MaxFailures = 1
SPECIFICATION FairSpec
CHECK_DEADLOCK FALSE
INVARIANTS SlugOwnedOnce PromotedIsWhole
PROPERTIES PromotionEnds
