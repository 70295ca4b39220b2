CONSTANTS
  Process = {p1, p2}
  NoOwner = NoOwner
  TornOwner = TornOwner
SPECIFICATION FairSpec
CHECK_DEADLOCK FALSE
INVARIANTS MutualExclusion LeaseKept
PROPERTIES Mutex EveryCallReturns
