CONSTANTS
  w1 = w1
  w2 = w2
  s1 = s1
  s2 = s2
  Caller = {w1, w2}
  Session = {s1, s2}
  Command = {"finish", "remove"}
  None = None
  MaxTries = 3
  MaxFaults = 2
  MaxEvents = 1
SYMMETRY Symmetric
SPECIFICATION Spec
CHECK_DEADLOCK FALSE
INVARIANTS OneRemover ReceiptIsTrue CleanedIsSealed
PROPERTIES QuietRemoval
