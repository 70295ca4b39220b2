CONSTANTS
  d1 = d1
  d2 = d2
  old = old
  commit = commit
  reason = reason
  other = other
  Proc = {p1, p2}
  Id = {d1, d2}
  Context = {c1}
  None = None
  Draft <- Receipts
  V1 <- OldLedgers
  IdOf <- Ids
  Reaper = {p1}
  Slow = FALSE
  UniqueIds = TRUE
  MaxCrashes = 2
  MaxRevisions = 3
SPECIFICATION DSpec
CHECK_DEADLOCK FALSE
INVARIANTS EndHasReceipt
PROPERTIES ClearedIsEnded
